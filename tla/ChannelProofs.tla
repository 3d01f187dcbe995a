--------------------------- MODULE ChannelProofs ----------------------------
(***************************************************************************)
(* Proofs about the channel, for every window, counter range, grace and    *)
(* number of sessions.                                                     *)
(***************************************************************************)
EXTENDS Channel, TLAPS

(***************************************************************************)
(* The inductive invariant.  Beside the types it relates the two sessions  *)
(* of the channel to the history of rotations: a usable previous session   *)
(* was replaced exactly Grace - left ticks ago, and, as long as no         *)
(* rotation was hasty, it is the only session replaced within the grace.   *)
(***************************************************************************)
Rotations ==
    /\ ch.cur \in installed
    /\ ch.left > 0 =>
         /\ ch.prev \in installed \ {ch.cur}
         /\ retired[ch.prev] = Grace - ch.left
    /\ ~hasty => \A s \in installed \ {ch.cur} :
                    retired[s] < Grace => ch.prev = s /\ ch.left = Grace - retired[s]

Inv == TypeOK /\ SeenIsDelivered /\ Rotations

(* The assumptions on the constants, in the form the provers need. *)
LEMMA Facts ==
  /\ Grace \in Nat /\ Grace >= 1
  /\ MaxSessions \in Nat /\ 1 \in Session /\ NoSession \notin Session
  /\ Session \subseteq Nat /\ \A k \in Session : 1 .. k \subseteq Session
  /\ MaxCounter \in Nat /\ Counter \subseteq Nat
BY GraceAssumption, MaxSessionsAssumption, NoSessionAssumption, CounterAssumption
   DEF Session, Counter

LEMMA InitInv == Init => Inv
<1> SUFFICES ASSUME Init PROVE Inv
  OBVIOUS
<1>1. ch = [cur |-> 1, prev |-> NoSession, left |-> 0]
  BY DEF Init, NewChannel
<1>2. TypeOK
  <2>1. ch \in Channels(Session)
    BY <1>1, Facts DEF Channels
  <2>2. 0 \in 0 .. MaxCounter + 1 /\ 0 \in 0 .. Grace /\ made = 1 /\ 1 \in 1 .. made
    BY Facts DEF Init
  <2>3. /\ seen \in [Session -> SUBSET Counter]
        /\ next \in [Session -> 0 .. MaxCounter + 1]
        /\ retired \in [Session -> 0 .. Grace]
        /\ writes \in [Frame -> 0 .. 1]
    BY <2>2 DEF Init
  <2>4. made \in Session /\ installed \subseteq 1 .. made /\ hasty \in BOOLEAN
    BY <2>2, Facts DEF Init
  <2> QED BY <2>1, <2>3, <2>4 DEF TypeOK
<1>3. SeenIsDelivered
  BY DEF Init, SeenIsDelivered, Frame
<1>4. Rotations
  BY <1>1 DEF Init, Rotations
<1> QED BY <1>2, <1>3, <1>4 DEF Inv

(* A frame the channel accepts was sealed under its current session, or under
   its previous one within the grace, and was not handed up before. *)
LEMMA AcceptedFrame ==
  ASSUME Inv, NEW f \in Arriving, Accepts(ch, seen, f)
  PROVE  /\ f \in Sealed
         /\ f.sess = ch.cur \/ (f.sess = ch.prev /\ ch.left > 0)
         /\ f.sess \in installed
         /\ f.seq \notin seen[f.sess]
         /\ writes[f] = 0
<1>1. /\ f.sess = ch.cur \/ (f.sess = ch.prev /\ ch.left > 0)
      /\ f.seq \notin seen[f.sess]
  BY DEF Accepts, Opens, PrevValid, Fresh
<1>2. f.sess \in installed
  BY <1>1 DEF Inv, Rotations
<1>3. f.sess \in Session
  BY <1>2, Facts DEF Inv, TypeOK, Session
<1>4. f \in Sealed
  BY <1>3, Facts DEF Arriving
<1>5. f \in Frame /\ f = [sess |-> f.sess, seq |-> f.seq] /\ f.seq \in Counter
  BY <1>4 DEF Sealed, Frame
<1>6. writes[f] = 0
  <2>1. writes[f] \in 0 .. 1
    BY <1>5 DEF Inv, TypeOK
  <2>2. ~(writes[f] > 0)
    BY <1>1, <1>3, <1>5 DEF Inv, SeenIsDelivered
  <2> QED BY <2>1, <2>2
<1> QED BY <1>1, <1>2, <1>4, <1>6

(* Every step preserves the inductive invariant. *)
LEMMA NextInv == Inv /\ [Next]_vars => Inv'
<1> SUFFICES ASSUME Inv, [Next]_vars PROVE Inv'
  OBVIOUS
<1> USE DEF Inv
<1>t. /\ ch.cur \in Session /\ ch.prev \in Session \cup {NoSession}
      /\ ch.left \in 0 .. Grace
      /\ ch = [cur |-> ch.cur, prev |-> ch.prev, left |-> ch.left]
  BY DEF TypeOK, Channels
<1>u. CASE UNCHANGED vars
  BY <1>u DEF vars, history, TypeOK, SeenIsDelivered, Rotations
<1>1. CASE Negotiate
  <2>1. made' \in Session /\ installed \subseteq 1 .. made'
    BY <1>1, Facts DEF Negotiate, TypeOK, Session
  <2> QED BY <1>1, <2>1
          DEF Negotiate, history, TypeOK, SeenIsDelivered, Rotations
<1>2. ASSUME NEW s \in Session, Seal(s) PROVE Inv'
  <2>1. next' \in [Session -> 0 .. MaxCounter + 1]
    BY <1>2, Facts DEF Seal, TypeOK
  <2> QED BY <1>2, <2>1 DEF Seal, history, TypeOK, SeenIsDelivered, Rotations
<1>3. ASSUME NEW s \in Session, Rotate(s) PROVE Inv'
  <2>1. /\ ch' = [cur |-> s, prev |-> ch.cur, left |-> Grace]
        /\ installed' = installed \cup {s}
        /\ retired' = [retired EXCEPT ![ch.cur] = 0]
        /\ hasty' = (hasty \/ ch.left > 0)
        /\ s \notin installed /\ s \in 1 .. made
        /\ UNCHANGED <<seen, next, made, writes>>
    BY <1>3, Facts DEF Rotate, Rotated, TypeOK, Session
  <2>2. TypeOK'
    <3>1. ch' \in Channels(Session)
      BY <1>t, <2>1, Facts DEF Channels
    <3>2. retired' \in [Session -> 0 .. Grace]
      BY <1>t, <2>1, Facts DEF TypeOK
    <3> QED BY <2>1, <3>1, <3>2 DEF TypeOK
  <2>3. SeenIsDelivered'
    BY <2>1 DEF SeenIsDelivered
  <2>4. Rotations'
    <3>1. retired'[ch.cur] = 0
      BY <1>t, <2>1 DEF TypeOK
    <3>2. ch.cur \in installed /\ ch.cur # s
      BY <2>1 DEF Rotations
    <3>3. ASSUME ~hasty', NEW r \in installed' \ {ch'.cur}, retired'[r] < Grace
          PROVE  ch'.prev = r /\ ch'.left = Grace - retired'[r]
      <4>1. ~hasty /\ ch.left = 0
        <5>1. ~hasty /\ ~(ch.left > 0)
          BY <2>1, <3>3, Zenon
        <5> QED BY <1>t, <5>1
      <4>2. CASE r = ch.cur
        BY <2>1, <3>1, <4>2, Facts
      <4>3. CASE r # ch.cur
        <5>1. r \in installed \ {ch.cur} /\ r \in Session
          BY <2>1, <3>3, <4>3, Facts DEF TypeOK
        <5>2. retired'[r] = retired[r] /\ retired[r] \in 0 .. Grace
          BY <2>1, <4>3, <5>1 DEF TypeOK
        <5>3. ch.left = Grace - retired[r]
          BY <3>3, <4>1, <5>1, <5>2 DEF Rotations
        <5> QED BY <3>3, <4>1, <5>2, <5>3, Facts
      <4> QED BY <4>2, <4>3
    <3> QED BY <2>1, <3>1, <3>2, <3>3, Facts DEF Rotations
  <2> QED BY <2>2, <2>3, <2>4
<1>4. ASSUME NEW f \in Arriving, Open(f) PROVE Inv'
  <2>1. /\ f \in Sealed /\ f.sess \in installed /\ writes[f] = 0
        /\ seen' = [seen EXCEPT ![f.sess] = @ \cup {f.seq}]
        /\ writes' = [writes EXCEPT ![f] = @ + 1]
        /\ UNCHANGED <<ch, next, made, installed, retired, hasty>>
    BY <1>4, AcceptedFrame DEF Open, history
  <2>2. /\ f \in Frame /\ f = [sess |-> f.sess, seq |-> f.seq]
        /\ f.sess \in Session /\ f.seq \in Counter
    BY <2>1 DEF Sealed, Frame
  <2>3. writes' = [writes EXCEPT ![f] = 1]
    BY <2>1, <2>2 DEF TypeOK
  <2>4. TypeOK'
    <3>1. seen' \in [Session -> SUBSET Counter]
      BY <2>1, <2>2 DEF TypeOK
    <3>2. writes' \in [Frame -> 0 .. 1]
      BY <2>2, <2>3 DEF TypeOK
    <3> QED BY <2>1, <3>1, <3>2 DEF TypeOK
  <2>5. SeenIsDelivered'
    <3> SUFFICES ASSUME NEW s \in Session, NEW n \in Counter
                 PROVE  n \in seen'[s] <=> writes'[[sess |-> s, seq |-> n]] > 0
      BY <2>4 DEF SeenIsDelivered, TypeOK
    <3> DEFINE g == [sess |-> s, seq |-> n]
    <3>1. g \in Frame
      BY DEF Frame
    <3>2. n \in seen[s] <=> writes[g] > 0
      BY DEF SeenIsDelivered
    <3>3. CASE g = f
      <4>1. s = f.sess /\ n = f.seq
        BY <2>2, <3>3
      <4>2. n \in seen'[s]
        BY <2>1, <4>1 DEF TypeOK
      <4>3. writes'[g] = 1
        BY <2>2, <2>3, <3>3 DEF TypeOK
      <4> QED BY <4>2, <4>3
    <3>4. CASE g # f
      <4>1. s # f.sess \/ n # f.seq
        BY <2>2, <3>4
      <4>2. n \in seen'[s] <=> n \in seen[s]
        BY <2>1, <2>2, <4>1 DEF TypeOK
      <4>3. writes'[g] = writes[g]
        BY <2>3, <3>1, <3>4 DEF TypeOK
      <4> QED BY <3>2, <4>2, <4>3
    <3> QED BY <3>3, <3>4
  <2>6. Rotations'
    BY <2>1 DEF Rotations
  <2> QED BY <2>4, <2>5, <2>6
<1>5. CASE Tick
  <2>1. /\ ch'.cur = ch.cur /\ ch'.prev = ch.prev
        /\ ch'.left = IF ch.left > 0 THEN ch.left - 1 ELSE 0
        /\ ch' = [cur |-> ch.cur, prev |-> ch.prev, left |-> ch'.left]
    BY <1>5, <1>t DEF Tick, Aged
  <2>2. /\ retired' = [s \in Session |->
                        IF s \in installed \ {ch.cur} /\ retired[s] < Grace
                        THEN retired[s] + 1 ELSE retired[s]]
        /\ UNCHANGED <<seen, next, made, installed, hasty, writes>>
    BY <1>5 DEF Tick
  <2>3. TypeOK'
    <3>1. ch'.left \in 0 .. Grace
      BY <1>t, <2>1, Facts
    <3>2. ch' \in Channels(Session)
      BY <1>t, <2>1, <3>1 DEF Channels
    <3>3. retired' \in [Session -> 0 .. Grace]
      BY <2>2, Facts DEF TypeOK
    <3> QED BY <2>2, <3>2, <3>3 DEF TypeOK
  <2>4. SeenIsDelivered'
    BY <2>2 DEF SeenIsDelivered
  <2>5. Rotations'
    <3>1. ASSUME ch'.left > 0
          PROVE  /\ ch.prev \in installed \ {ch.cur}
                 /\ retired'[ch.prev] = Grace - ch'.left
      <4>1. ch.left > 0 /\ ch'.left = ch.left - 1
        BY <1>t, <2>1, <3>1
      <4>2. /\ ch.prev \in installed \ {ch.cur}
            /\ retired[ch.prev] = Grace - ch.left
        BY <4>1 DEF Rotations
      <4>3. ch.prev \in Session /\ retired[ch.prev] < Grace
        BY <1>t, <4>1, <4>2, Facts DEF TypeOK
      <4> QED BY <1>t, <2>2, <4>1, <4>2, <4>3, Facts
    <3>2. ASSUME ~hasty, NEW s \in installed \ {ch.cur}, retired'[s] < Grace
          PROVE  ch.prev = s /\ ch'.left = Grace - retired'[s]
      <4>1. s \in Session /\ retired[s] \in 0 .. Grace
        BY Facts DEF TypeOK
      <4>2. retired[s] < Grace /\ retired'[s] = retired[s] + 1
        BY <2>2, <3>2, <4>1, Facts
      <4>3. ch.prev = s /\ ch.left = Grace - retired[s]
        BY <3>2, <4>2 DEF Rotations
      <4> QED BY <1>t, <2>1, <4>1, <4>2, <4>3, Facts
    <3> QED BY <2>1, <2>2, <3>1, <3>2 DEF Rotations
  <2> QED BY <2>3, <2>4, <2>5
<1> QED BY <1>u, <1>1, <1>2, <1>3, <1>4, <1>5 DEF Next, Decrypt, Reject

(***************************************************************************)
(* Every reachable state of the channel has its type, its replay windows   *)
(* hold exactly what was handed up, and, while no rotation is hasty, every *)
(* session replaced less than Grace ago still decrypts.                    *)
(***************************************************************************)
THEOREM ChannelInvariant == Spec => [](TypeOK /\ SeenIsDelivered /\ GraceKept)
<1>1. Inv => GraceKept
  <2> SUFFICES ASSUME Inv, ~hasty, NEW s \in installed \ {ch.cur}, retired[s] < Grace
               PROVE  PrevValid(ch) /\ ch.prev = s
    BY DEF GraceKept, GraceHonoured
  <2>1. ch.prev = s /\ ch.left = Grace - retired[s]
    BY DEF Inv, Rotations
  <2>2. s \in Session /\ retired[s] \in 0 .. Grace
    BY Facts DEF Inv, TypeOK
  <2> QED BY <2>1, <2>2, Facts DEF PrevValid
<1> QED BY <1>1, InitInv, NextInv, PTL DEF Spec, Inv

(***************************************************************************)
(* For every grace and any number of sessions the channel keeps its type:  *)
(* the window of a session holds only numbers of the session, and no frame *)
(* is handed up twice.                                                     *)
(***************************************************************************)
COROLLARY ChannelTypes == Spec => []TypeOK
  BY ChannelInvariant, PTL

(***************************************************************************)
(* For any number of rotations at least Grace apart, every session         *)
(* replaced less than Grace ticks ago still decrypts (Channel.Rotate and   *)
(* Channel.Decrypt).                                                       *)
(***************************************************************************)
COROLLARY GraceIsKept == Spec => []GraceKept
  BY ChannelInvariant, PTL

-----------------------------------------------------------------------------
(* What a single step may do, from the inductive invariant.                *)

LEMMA StepDelivers == Inv /\ [Next]_vars => [AtMostOnce!Next]_<<Sealed, writes>>
<1> SUFFICES ASSUME Inv, [Next]_vars PROVE [AtMostOnce!Next]_<<Sealed, writes>>
  OBVIOUS
<1>a. next = next' => Sealed' = Sealed
  BY DEF Sealed
<1>u. CASE UNCHANGED vars
  BY <1>a, <1>u DEF vars
<1>1. CASE Negotiate
  BY <1>1, <1>a DEF Negotiate
<1>2. ASSUME NEW s \in Session, Seal(s) PROVE AtMostOnce!Next
  <2> DEFINE f == [sess |-> s, seq |-> next[s]]
  <2>1. next[s] \in Nat /\ next[s] <= MaxCounter /\ next[s] \in Counter
    BY <1>2, Facts DEF Seal, Inv, TypeOK, Counter
  <2>2. f \in Frame /\ f \notin Sealed
    BY <2>1 DEF Frame, Sealed
  <2>3. Sealed' = Sealed \cup {f}
    <3>1. ASSUME NEW g \in Frame
          PROVE  g.seq < next'[g.sess] <=> g.seq < next[g.sess] \/ g = f
      <4>1. g.sess \in Session /\ g.seq \in Counter /\ g = [sess |-> g.sess, seq |-> g.seq]
        BY DEF Frame
      <4>2. CASE g.sess = s
        <5>1. next'[g.sess] = next[s] + 1
          BY <1>2, <4>2 DEF Seal, Inv, TypeOK
        <5>2. g.seq < next[s] + 1 <=> g.seq < next[s] \/ g.seq = next[s]
          BY <2>1, <4>1, Facts
        <5> QED BY <4>1, <4>2, <5>1, <5>2
      <4>3. CASE g.sess # s
        BY <1>2, <4>1, <4>3 DEF Seal, Inv, TypeOK
      <4> QED BY <4>2, <4>3
    <3> QED BY <2>2, <3>1 DEF Sealed
  <2>4. UNCHANGED writes
    BY <1>2 DEF Seal
  <2>5. AtMostOnce!Send(f)
    BY <2>2, <2>3, <2>4 DEF AtMostOnce!Send
  <2> QED BY <2>2, <2>5 DEF AtMostOnce!Next
<1>3. ASSUME NEW s \in Session, Rotate(s) PROVE UNCHANGED <<Sealed, writes>>
  BY <1>3, <1>a DEF Rotate
<1>4. ASSUME NEW f \in Arriving, Open(f) PROVE AtMostOnce!Next
  <2>1. f \in Sealed /\ writes[f] = 0
    BY <1>4, AcceptedFrame DEF Open
  <2>2. f \in Frame
    BY <2>1 DEF Sealed
  <2>3. writes' = [writes EXCEPT ![f] = 1] /\ UNCHANGED next
    BY <1>4, <2>1, <2>2 DEF Open, Inv, TypeOK
  <2> QED BY <1>a, <2>1, <2>2, <2>3 DEF AtMostOnce!Deliver, AtMostOnce!Next
<1>5. CASE Tick
  BY <1>5, <1>a DEF Tick
<1> QED BY <1>u, <1>1, <1>2, <1>3, <1>4, <1>5 DEF Next, Decrypt, Reject, vars

(***************************************************************************)
(* The channel implements the at-most-once datagram service: what it hands *)
(* up was sealed by the peer and is handed up once, over any number of     *)
(* rotations, duplicates and damaged frames.                               *)
(***************************************************************************)
THEOREM ChannelDelivers == Spec => DeliverySpec
<1>1. Init => AtMostOnce!Init
  <2> SUFFICES ASSUME Init PROVE AtMostOnce!Init
    OBVIOUS
  <2>1. Sealed = {}
    <3>1. ASSUME NEW f \in Frame PROVE ~(f.seq < next[f.sess])
      <4>1. f.sess \in Session /\ f.seq \in Nat
        BY Facts DEF Frame
      <4> QED BY <4>1 DEF Init
    <3> QED BY <3>1 DEF Sealed
  <2> QED BY <2>1 DEF Init, AtMostOnce!Init
<1> QED BY <1>1, InitInv, NextInv, StepDelivers, PTL
        DEF Spec, DeliverySpec, AtMostOnce!Spec

(***************************************************************************)
(* A retired session hands up nothing once the grace is over: forward      *)
(* secrecy of the rekey does not wait for the previous keys to be dropped. *)
(***************************************************************************)
THEOREM ChannelOldKeysExpire == Spec => OldKeysExpire
<1> DEFINE Expired == \A f \in Frame : writes'[f] # writes[f] =>
             f.sess \in installed /\ (f.sess = ch.cur \/ retired[f.sess] < Grace)
<1>1. Inv /\ [Next]_vars => [Expired]_vars
  <2> SUFFICES ASSUME Inv, Next, NEW f \in Frame, writes'[f] # writes[f]
               PROVE  f.sess \in installed /\ (f.sess = ch.cur \/ retired[f.sess] < Grace)
    BY DEF vars
  <2>1. PICK g \in Arriving : Open(g)
    BY DEF Next, Negotiate, Seal, Rotate, Tick, Decrypt, Reject, vars
  <2>2. f = g
    BY <2>1 DEF Open, Inv, TypeOK
  <2>3. f.sess \in installed /\ (f.sess = ch.cur \/ (f.sess = ch.prev /\ ch.left > 0))
    BY <2>1, <2>2, AcceptedFrame DEF Open
  <2>4. f.sess = ch.prev /\ ch.left > 0 => retired[f.sess] < Grace
    BY Facts DEF Inv, Rotations, TypeOK, Channels
  <2> QED BY <2>3, <2>4
<1> QED BY <1>1, InitInv, NextInv, PTL DEF Spec, OldKeysExpire

=============================================================================
