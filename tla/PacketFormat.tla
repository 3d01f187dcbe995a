---------------------------- MODULE PacketFormat ----------------------------
(***************************************************************************)
(* The sizes of what the tunnel puts on the wire: the outer packet of      *)
(* src/pkg/transport/packet.go, the data frame of src/pkg/session, and the *)
(* receive buffer of src/pkg/transport/udp.go.  A packet is its size and   *)
(* the value of its length field; the bytes themselves do not matter here. *)
(***************************************************************************)
EXTENDS Integers, TLAPS

MaxPacketSize == 65535        \* also the size of the receive buffer
MaxPadding == 64
HeaderSize == 8 + 1 + 2       \* random prefix, type, payload length
SeqSize == 8
TagSize == 16

\* The largest payload of a UDP datagram over IPv4.
MaxDatagram == 65507

Uint16(n) == n % 65536

\* Session.Encrypt: counter, ciphertext and tag.
FrameSize(len) == SeqSize + len + TagSize

\* Marshal takes a payload of this size.
Marshals(payload) == payload <= MaxPacketSize - 256

\* Padding drawn from one random byte.
PaddingOf(byte) == byte % (MaxPadding + 1)

Marshalled(payload, padding) ==
    [size |-> HeaderSize + payload + padding, field |-> Uint16(payload)]

\* What ReadFromUDP leaves in the buffer of a datagram of that size.
InBuffer(d) ==
    [d EXCEPT !.size = IF @ > MaxPacketSize THEN MaxPacketSize ELSE @]

\* Unmarshal finds a whole payload; its size is then the length field.
Unmarshals(d) == d.size >= HeaderSize /\ d.size >= HeaderSize + d.field

\* ReadPacket: the device copies no more than the buffer takes.
TunBuffer(mtu) == mtu + 100
ReadSize(mtu, len) == IF len > TunBuffer(mtu) THEN TunBuffer(mtu) ELSE len

-----------------------------------------------------------------------------
(* Describe of src/pkg/ipparse/ipparse.go: what it takes a packet for, and *)
(* the offsets it reads, by the packet's length and its first byte.        *)

Version(first) == first \div 16
HeaderLength(first) == (first % 16) * 4

DescribesAs(len, first, protocol) ==
    IF len < 20 THEN "too short"
    ELSE IF Version(first) # 4 THEN "not IPv4"
    ELSE IF HeaderLength(first) < 20 \/ HeaderLength(first) > len THEN "bad IHL"
    ELSE IF protocol = 1 THEN "ICMP"
    ELSE "other"

OffsetsRead(len, first, protocol) ==
    CASE DescribesAs(len, first, protocol) = "too short" -> {}
      [] DescribesAs(len, first, protocol) \in {"not IPv4", "bad IHL"} -> {0}
      [] DescribesAs(len, first, protocol) = "ICMP" ->
            {0, 9} \cup 12 .. 19
            \cup IF len >= HeaderLength(first) + 2
                 THEN {HeaderLength(first), HeaderLength(first) + 1} ELSE {}
      [] DescribesAs(len, first, protocol) = "other" -> {0, 9} \cup 12 .. 19

-----------------------------------------------------------------------------

LEMMA PaddingBounded ==
    ASSUME NEW byte \in 0 .. 255
    PROVE  PaddingOf(byte) \in 0 .. MaxPadding
  BY DEF PaddingOf, MaxPadding

(***************************************************************************)
(* Whatever Marshal takes, with whatever padding, fits a UDP datagram and  *)
(* the buffer of Receive, its 16-bit length field does not wrap, and       *)
(* Unmarshal finds the payload whole (transport/packet.go, udp.go).        *)
(***************************************************************************)
THEOREM PacketReadBack ==
    ASSUME NEW payload \in Nat, NEW byte \in 0 .. 255, Marshals(payload)
    PROVE  LET d == Marshalled(payload, PaddingOf(byte))
           IN  /\ d.size <= MaxDatagram
               /\ InBuffer(d) = d
               /\ Unmarshals(d)
               /\ d.field = payload
  <1> DEFINE d == Marshalled(payload, PaddingOf(byte))
  <1>1. payload <= 65279 /\ PaddingOf(byte) \in 0 .. 64
    <2>1. payload <= 65279
      BY SMT DEF Marshals, MaxPacketSize
    <2>2. PaddingOf(byte) \in 0 .. 64
      BY PaddingBounded DEF MaxPadding
    <2>3. QED
      BY <2>1, <2>2
  <1>2. d.size = 11 + payload + PaddingOf(byte) /\ d.field = payload
    BY <1>1 DEF Marshalled, HeaderSize, Uint16
  <1>3. d.size <= MaxDatagram /\ ~(d.size > MaxPacketSize)
    BY <1>1, <1>2 DEF MaxDatagram, MaxPacketSize
  <1>4. InBuffer(d) = d
    BY <1>3 DEF InBuffer, Marshalled
  <1>5. Unmarshals(d)
    BY <1>1, <1>2 DEF Unmarshals, HeaderSize
  <1>6. QED
    BY <1>2, <1>3, <1>4, <1>5

(***************************************************************************)
(* With an interface MTU of at most 65155 every packet read from the       *)
(* device can be sealed and marshalled, whatever size the system hands     *)
(* over: no packet is dropped for its size (tun/interface.go ReadPacket,   *)
(* Session.Encrypt, Marshal).                                              *)
(***************************************************************************)
THEOREM PacketsOfTheDeviceMarshal ==
    ASSUME NEW mtu \in Nat, mtu <= 65155, NEW len \in Nat
    PROVE  Marshals(FrameSize(ReadSize(mtu, len)))
  <1>1. ReadSize(mtu, len) \in Nat /\ ReadSize(mtu, len) <= mtu + 100
    BY SMT DEF ReadSize, TunBuffer
  <1>2. ASSUME NEW n \in Nat, n <= mtu + 100 PROVE Marshals(FrameSize(n))
    BY <1>2, SMT DEF Marshals, FrameSize, SeqSize, TagSize, MaxPacketSize
  <1>3. QED
    BY <1>1, <1>2

(***************************************************************************)
(* Describe reads no byte outside the packet, however short or malformed   *)
(* it is: it "never panics on malformed input" (ipparse/ipparse.go).       *)
(***************************************************************************)
THEOREM DescribeReadsInside ==
    ASSUME NEW len \in Nat, NEW first \in 0 .. 255, NEW protocol \in 0 .. 255
    PROVE  OffsetsRead(len, first, protocol) \subseteq 0 .. len - 1
  <1> DEFINE h == HeaderLength(first)
             what == DescribesAs(len, first, protocol)
  <1>1. h \in Nat
    BY DEF HeaderLength
  <1>2. CASE what = "too short"
    BY <1>2 DEF OffsetsRead
  <1>3. CASE what \in {"not IPv4", "bad IHL"}
    <2>1. len >= 20
      BY <1>3 DEF DescribesAs
    <2>2. OffsetsRead(len, first, protocol) = {0}
      BY <1>3 DEF OffsetsRead
    <2>3. QED
      BY <2>1, <2>2
  <1>4. CASE what \in {"ICMP", "other"}
    <2>1. len >= 20 /\ h >= 20 /\ h <= len
      BY <1>1, <1>4 DEF DescribesAs
    <2>2. /\ {0, 9} \cup 12 .. 19 \subseteq 0 .. len - 1
          /\ (IF len >= h + 2 THEN {h, h + 1} ELSE {}) \subseteq 0 .. len - 1
      BY <1>1, <2>1
    <2>3. QED
      BY <1>4, <2>2 DEF OffsetsRead
  <1>5. QED
    BY <1>2, <1>3, <1>4 DEF DescribesAs

=============================================================================
