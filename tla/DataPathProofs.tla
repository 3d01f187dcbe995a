--------------------------- MODULE DataPathProofs ---------------------------
(***************************************************************************)
(* Proofs about DataPath, for any number of goroutines, packets, sessions  *)
(* and counters.  The core is that whoever holds the mutex of a sending    *)
(* cipher state has read its nonce and nobody has moved it since, and that *)
(* whoever holds the one of a receiving cipher state has set its nonce.    *)
(***************************************************************************)
EXTENDS DataPath, TLAPS

\* The end that seals with a key, and the one that opens with it.
NearEnd(k) == IF k[2] = 1 THEN "client" ELSE "server"
FarEnd(k) == IF k[2] = 1 THEN "server" ELSE "client"

SenderInv ==
    \A t \in Sender :
        /\ sender[t].at = "read" <=> sender[t].pkt = None
        /\ sender[t].pkt # None =>
              /\ \A f \in net : f.pkt # sender[t].pkt
              /\ \A u \in Sender \ {t} : sender[u].pkt # sender[t].pkt
        /\ sender[t].at \in {"lock", "seal"} => sender[t].sess \in Sess
        /\ sender[t].at = "seal" =>
              /\ sendMu[EndOf(t)][sender[t].sess] = t
              /\ sender[t].seq = nonce[EndOf(t)][sender[t].sess]

ReceiverInv ==
    \A r \in Receiver :
        /\ receiver[r].at # "receive" =>
              receiver[r].frame \in net /\ receiver[r].sess \in Sess
        /\ receiver[r].at = "open" =>
              /\ recvMu[EndOf(r)][receiver[r].sess] = r
              /\ recvNonce[EndOf(r)][receiver[r].sess] = receiver[r].frame.seq
        /\ receiver[r].at = "accept" =>
              receiver[r].frame.key = RecvKey(EndOf(r), receiver[r].sess)

FrameInv ==
    \A f \in net :
        /\ f.seq = f.nonce
        /\ f.nonce < nonce[NearEnd(f.key)][f.key[1]]
        /\ <<f.pkt, FarEnd(f.key)>> \in sent
        /\ \A g \in net : g.pkt = f.pkt \/ (g.key = f.key /\ g.nonce = f.nonce) => g = f

SentInv == \A d \in sent : \E f \in net : d = <<f.pkt, FarEnd(f.key)>>

WriteInv ==
    \A p \in Packet, e \in End :
        writes[<<p, e>>] # 0 =>
            \E f \in net : /\ f.pkt = p
                           /\ FarEnd(f.key) = e
                           /\ f.seq \in seen[e][f.key[1]]

IInv ==
    /\ TypeOK /\ LocksAreBrief
    /\ SenderInv /\ ReceiverInv /\ FrameInv /\ SentInv /\ WriteInv

-----------------------------------------------------------------------------

LEMMA EndFacts ==
    /\ \A g : EndOf(g) \in End
    /\ \A e \in End, s \in Sess :
          /\ Other(e) \in End
          /\ SendKey(e, s) \in Key /\ RecvKey(e, s) \in Key
          /\ SendKey(e, s)[1] = s /\ NearEnd(SendKey(e, s)) = e
          /\ FarEnd(SendKey(e, s)) = Other(e)
          /\ RecvKey(e, s)[1] = s /\ FarEnd(RecvKey(e, s)) = e
    /\ \A k \in Key :
          /\ k[1] \in Sess /\ NearEnd(k) \in End /\ FarEnd(k) \in End
          /\ k = SendKey(NearEnd(k), k[1]) /\ k = RecvKey(FarEnd(k), k[1])
  BY DEF EndOf, End, Other, SendKey, RecvKey, Key, NearEnd, FarEnd

LEMMA RotatedType ==
    ASSUME NEW ch \in Channels(Sess), NEW s \in Sess
    PROVE  Rotated(ch, s) \in Channels(Sess)
  BY GraceAssumption DEF Rotated, Channels

LEMMA AgedType ==
    ASSUME NEW ch \in Channels(Sess)
    PROVE  Aged(ch) \in Channels(Sess)
  <1>1. /\ ch.left \in 0 .. Grace
        /\ (IF ch.left > 0 THEN ch.left - 1 ELSE 0) \in 0 .. Grace
    BY GraceAssumption DEF Channels
  <1>2. QED
    BY <1>1 DEF Aged, Channels

LEMMA InitInvariant == Init => IInv
  <1> SUFFICES ASSUME Init PROVE IInv
    OBVIOUS
  <1>1. 1 \in Sess /\ 0 \in Counter /\ 0 \in 0 .. MaxCounter + 1
    BY DataPathAssumption, CounterAssumption DEF Sess, Counter
  <1>2. None \notin Sender \cup Receiver
    BY DataPathAssumption DEF Sender, Receiver
  <1>3. TypeOK
    <2>1. channel \in [End -> Channels(Sess)]
      BY <1>1, GraceAssumption DEF Init, NewChannel, Channels
    <2>2. sender \in [Sender -> SenderState] /\ receiver \in [Receiver -> ReceiverState]
      BY <1>1 DEF Init, SenderState, ReceiverState, Reading, Listening
    <2>3. QED
      BY <1>1, <2>1, <2>2 DEF Init, TypeOK
  <1>4. LocksAreBrief
    BY <1>2 DEF Init, LocksAreBrief
  <1>5. SenderInv /\ ReceiverInv /\ FrameInv /\ SentInv /\ WriteInv
    BY DEF Init, SenderInv, ReceiverInv, FrameInv, SentInv, WriteInv, Reading, Listening
  <1>6. QED
    BY <1>3, <1>4, <1>5 DEF IInv

-----------------------------------------------------------------------------
(* One lemma for each operation.                                           *)

LEMMA ReadTunStep ==
    ASSUME IInv, NEW t \in Sender, NEW p \in Packet, ReadTun(t, p) PROVE IInv'
  <1> USE DEF IInv
  <1>1. TypeOK'
    BY DEF ReadTun, TypeOK, SenderState, cipherVars, histories
  <1>2. LocksAreBrief'
    BY DEF ReadTun, LocksAreBrief, TypeOK, SenderState, cipherVars, histories
  <1>3. SenderInv'
    BY DataPathAssumption DEF ReadTun, Unread, SenderInv, TypeOK, SenderState, Packet, cipherVars, histories
  <1>4. ReceiverInv' /\ FrameInv' /\ SentInv' /\ WriteInv'
    BY DEF ReadTun, ReceiverInv, FrameInv, SentInv, WriteInv, cipherVars, histories
  <1>5. QED
    BY <1>1, <1>2, <1>3, <1>4

LEMMA PickSessionStep ==
    ASSUME IInv, NEW t \in Sender, PickSession(t) PROVE IInv'
  <1> USE DEF IInv
  <1>0. channel[EndOf(t)].cur \in Sess
    BY EndFacts DEF TypeOK, Channels
  <1>1. TypeOK'
    BY <1>0 DEF PickSession, TypeOK, SenderState, cipherVars, histories
  <1>2. LocksAreBrief'
    BY DEF PickSession, LocksAreBrief, TypeOK, SenderState, cipherVars, histories
  <1>3. SenderInv'
    BY <1>0 DEF PickSession, SenderInv, TypeOK, SenderState, cipherVars, histories
  <1>4. ReceiverInv' /\ FrameInv' /\ SentInv' /\ WriteInv'
    BY DEF PickSession, ReceiverInv, FrameInv, SentInv, WriteInv, cipherVars, histories
  <1>5. QED
    BY <1>1, <1>2, <1>3, <1>4

LEMMA TakeCounterStep ==
    ASSUME IInv, NEW t \in Sender, TakeCounter(t) PROVE IInv'
  <1> USE DEF IInv
  <1> DEFINE e == EndOf(t)
             s == sender[t].sess
  <1>0. /\ e \in End /\ s \in Sess /\ nonce[e][s] \in Counter /\ None \notin Sender
        /\ sender[t] \in SenderState /\ sender[t].at = "lock"
    BY EndFacts, DataPathAssumption, CounterAssumption
    DEF TakeCounter, SenderInv, TypeOK, Counter, Sender
  <1>1. TypeOK'
    <2>1. sendMu' \in [End -> [Sess -> Sender \cup {None}]]
      BY <1>0 DEF TakeCounter, TypeOK
    <2>2. sender' \in [Sender -> SenderState]
      BY <1>0 DEF TakeCounter, TypeOK, SenderState
    <2>3. QED
      BY <2>1, <2>2 DEF TakeCounter, TypeOK, cipherVars, histories
  <1>2. LocksAreBrief'
    BY <1>0 DEF TakeCounter, LocksAreBrief, TypeOK, SenderState, cipherVars, histories
  <1>3. SenderInv'
    <2> SUFFICES ASSUME NEW u \in Sender PROVE SenderInv!(u)'
      BY DEF SenderInv
    <2>1. sendMu'[e][s] = t /\ nonce' = nonce
      BY <1>0 DEF TakeCounter, TypeOK, cipherVars
    <2>2. CASE u = t
      BY <1>0, <2>1, <2>2 DEF TakeCounter, SenderInv, TypeOK, SenderState, histories
    <2>3. CASE u # t
      <3>1. sender'[u] = sender[u] /\ net' = net
        BY <2>3 DEF TakeCounter, TypeOK
      <3>2. \A v \in Sender : sender'[v].pkt = sender[v].pkt
        BY <1>0 DEF TakeCounter, TypeOK, SenderState
      <3>3. ASSUME sender[u].at = "seal"
            PROVE  sendMu'[EndOf(u)][sender[u].sess] = sendMu[EndOf(u)][sender[u].sess]
        BY <1>0, <3>3, EndFacts DEF TakeCounter, SenderInv, TypeOK
      <3>4. QED
        BY <2>1, <3>1, <3>2, <3>3 DEF SenderInv
    <2>4. QED
      BY <2>2, <2>3
  <1>4. ReceiverInv' /\ FrameInv' /\ SentInv' /\ WriteInv'
    BY DEF TakeCounter, ReceiverInv, FrameInv, SentInv, WriteInv, cipherVars, histories
  <1>5. QED
    BY <1>1, <1>2, <1>3, <1>4

LEMMA ExhaustedStep ==
    ASSUME IInv, NEW t \in Sender, Exhausted(t) PROVE IInv'
  <1> USE DEF IInv
  <1>1. TypeOK'
    BY CounterAssumption DEF Exhausted, TypeOK, SenderState, Reading, Counter, cipherVars, histories
  <1>2. LocksAreBrief'
    BY DEF Exhausted, LocksAreBrief, TypeOK, SenderState, cipherVars, histories
  <1>3. SenderInv'
    BY DEF Exhausted, SenderInv, TypeOK, SenderState, Reading, cipherVars, histories
  <1>4. ReceiverInv' /\ FrameInv' /\ SentInv' /\ WriteInv'
    BY DEF Exhausted, ReceiverInv, FrameInv, SentInv, WriteInv, cipherVars, histories
  <1>5. QED
    BY <1>1, <1>2, <1>3, <1>4

LEMMA SealStep ==
    ASSUME IInv, NEW t \in Sender, Seal(t) PROVE IInv'
  <1> USE DEF IInv
  <1> DEFINE e == EndOf(t)
             s == sender[t].sess
             p == sender[t].pkt
             f == [key |-> SendKey(e, s), nonce |-> nonce[e][s], seq |-> sender[t].seq, pkt |-> p]
  <1>0. /\ e \in End /\ s \in Sess /\ p \in Packet /\ None \notin Sender
        /\ sendMu[e][s] = t /\ sender[t].seq = nonce[e][s]
        /\ nonce[e][s] \in Counter /\ nonce[e][s] + 1 \in 0 .. MaxCounter + 1
        /\ \A g \in net : g.pkt # p
        /\ \A u \in Sender \ {t} : sender[u].pkt # p
    BY EndFacts, DataPathAssumption, CounterAssumption
    DEF Seal, SenderInv, TypeOK, SenderState, Counter, Sender
  <1>1. /\ nonce' = [nonce EXCEPT ![e][s] = @ + 1]
        /\ sendMu' = [sendMu EXCEPT ![e][s] = None]
        /\ net' = net \cup {f}
        /\ sent' = sent \cup {<<p, Other(e)>>}
        /\ sender' = [sender EXCEPT ![t] = Reading]
        /\ UNCHANGED <<channel, made, recvNonce, seen, recvMu, receiver, writes>>
    BY DEF Seal
  <1>2. f \in Frame /\ FarEnd(f.key) = Other(e) /\ NearEnd(f.key) = e /\ f.key[1] = s
    BY <1>0, EndFacts DEF Frame
  <1>3. /\ nonce'[e][s] = nonce[e][s] + 1
        /\ \A d \in End, z \in Sess : nonce'[d][z] # nonce[d][z] => d = e /\ z = s
        /\ \A d \in End, z \in Sess : nonce'[d][z] >= nonce[d][z]
    BY <1>0, <1>1 DEF TypeOK
  <1>4. TypeOK'
    <2>1. nonce' \in [End -> [Sess -> 0 .. MaxCounter + 1]]
      BY <1>0, <1>1 DEF TypeOK
    <2>2. sendMu' \in [End -> [Sess -> Sender \cup {None}]]
      BY <1>0, <1>1 DEF TypeOK
    <2>3. sender' \in [Sender -> SenderState]
      BY <1>0, <1>1, CounterAssumption DEF TypeOK, SenderState, Reading, Counter
    <2>4. <<p, Other(e)>> \in Packet \X End
      BY <1>0, EndFacts
    <2>5. QED
      BY <1>1, <1>2, <2>1, <2>2, <2>3, <2>4 DEF TypeOK
  <1>5. LocksAreBrief'
    <2> SUFFICES ASSUME NEW d \in End, NEW z \in Sess, NEW u \in Sender, sendMu'[d][z] = u
                 PROVE  EndOf(u) = d /\ sender'[u].at = "seal" /\ sender'[u].sess = z
      BY <1>1 DEF LocksAreBrief
    <2>1. sendMu[d][z] = u /\ ~(d = e /\ z = s)
      BY <1>0, <1>1 DEF TypeOK
    <2>2. EndOf(u) = d /\ sender[u].at = "seal" /\ sender[u].sess = z /\ u # t
      BY <1>0, <2>1 DEF LocksAreBrief
    <2>3. QED
      BY <1>1, <2>2 DEF TypeOK
  <1>6. SenderInv'
    <2> SUFFICES ASSUME NEW u \in Sender PROVE SenderInv!(u)'
      BY DEF SenderInv
    <2>1. CASE u = t
      BY <1>1, <2>1 DEF SenderInv, TypeOK, Reading
    <2>2. CASE u # t
      <3>1. sender'[u] = sender[u]
        BY <1>1, <2>2 DEF TypeOK
      <3>2. sender'[t].pkt = None
        BY <1>1 DEF TypeOK, Reading
      <3>3. \A v \in Sender \ {t} : sender'[v].pkt = sender[v].pkt
        BY <1>1 DEF TypeOK
      <3>4. ASSUME sender[u].at = "seal"
            PROVE  /\ sendMu'[EndOf(u)][sender[u].sess] = u
                   /\ nonce'[EndOf(u)][sender[u].sess] = nonce[EndOf(u)][sender[u].sess]
        BY <1>0, <1>1, <1>3, <2>2, <3>4, EndFacts DEF SenderInv, TypeOK
      <3>5. QED
        BY <1>0, <1>1, <2>2, <3>1, <3>2, <3>3, <3>4 DEF SenderInv
    <2>3. QED
      BY <2>1, <2>2
  <1>7. FrameInv'
    <2> SUFFICES ASSUME NEW g \in net' PROVE FrameInv!(g)'
      BY DEF FrameInv
    <2>1. \A h \in net : h.key = f.key => h.nonce # f.nonce
      <3> SUFFICES ASSUME NEW h \in net, h.key = f.key PROVE h.nonce # f.nonce
        OBVIOUS
      <3>1. h.nonce < nonce[e][s] /\ h.nonce \in Int /\ nonce[e][s] \in Int
        <4>1. h.nonce < nonce[NearEnd(h.key)][h.key[1]]
          BY DEF FrameInv
        <4>2. h.nonce \in Counter /\ nonce[NearEnd(h.key)][h.key[1]] = nonce[e][s]
          BY <1>2 DEF TypeOK, Frame
        <4>3. QED
          BY <1>0, <4>1, <4>2, CounterAssumption DEF Counter
      <3>2. QED
        BY <3>1
    <2>2. CASE g = f
      BY <1>0, <1>1, <1>2, <1>3, <2>1, <2>2 DEF Counter
    <2>3. CASE g \in net
      <3>1. nonce[NearEnd(g.key)][g.key[1]] <= nonce'[NearEnd(g.key)][g.key[1]]
        BY <1>3, <2>3, EndFacts DEF TypeOK, Frame
      <3>2. /\ g.nonce \in Counter
            /\ nonce[NearEnd(g.key)][g.key[1]] \in 0 .. MaxCounter + 1
            /\ nonce'[NearEnd(g.key)][g.key[1]] \in 0 .. MaxCounter + 1
        BY <1>4, <2>3, EndFacts DEF TypeOK, Frame
      <3>3. g.nonce < nonce[NearEnd(g.key)][g.key[1]]
        BY <2>3 DEF FrameInv
      <3>4. g.nonce < nonce'[NearEnd(g.key)][g.key[1]]
        BY <3>1, <3>2, <3>3, CounterAssumption DEF Counter
      <3>5. QED
        BY <1>0, <1>1, <2>1, <2>3, <3>4 DEF FrameInv
    <2>4. QED
      BY <1>1, <2>2, <2>3
  <1>8. ReceiverInv' /\ SentInv' /\ WriteInv'
    <2>1. ReceiverInv'
      BY <1>1 DEF ReceiverInv
    <2>2. SentInv'
      BY <1>1, <1>2 DEF SentInv
    <2>3. WriteInv'
      BY <1>1 DEF WriteInv
    <2>4. QED
      BY <2>1, <2>2, <2>3
  <1>9. QED
    BY <1>4, <1>5, <1>6, <1>7, <1>8

LEMMA ReceiveFrameStep ==
    ASSUME IInv, NEW r \in Receiver, NEW f \in net, ReceiveFrame(r, f) PROVE IInv'
  <1> USE DEF IInv
  <1> DEFINE ch == channel[EndOf(r)]
  <1>0. /\ ch.cur \in Sess
        /\ (IF PrevValid(ch) THEN ch.prev ELSE NoSession) \in Sess \cup {NoSession}
    BY EndFacts DEF TypeOK, Channels
  <1>1. TypeOK'
    BY <1>0 DEF ReceiveFrame, TypeOK, ReceiverState, cipherVars, histories
  <1>2. LocksAreBrief'
    BY DEF ReceiveFrame, LocksAreBrief, TypeOK, cipherVars, histories
  <1>3. ReceiverInv'
    BY <1>0 DEF ReceiveFrame, ReceiverInv, TypeOK, cipherVars, histories
  <1>4. SenderInv' /\ FrameInv' /\ SentInv' /\ WriteInv'
    BY DEF ReceiveFrame, SenderInv, FrameInv, SentInv, WriteInv, cipherVars, histories
  <1>5. QED
    BY <1>1, <1>2, <1>3, <1>4

LEMMA SetNonceStep ==
    ASSUME IInv, NEW r \in Receiver, SetNonce(r) PROVE IInv'
  <1> USE DEF IInv
  <1> DEFINE e == EndOf(r)
             s == receiver[r].sess
  <1>0. /\ e \in End /\ s \in Sess /\ None \notin Receiver
        /\ receiver[r].frame \in net /\ receiver[r].frame.seq \in Counter
        /\ receiver[r] \in ReceiverState /\ recvMu[e][s] = None
    BY EndFacts, DataPathAssumption DEF SetNonce, ReceiverInv, TypeOK, Frame, Receiver
  <1>1. /\ recvMu' = [recvMu EXCEPT ![e][s] = r]
        /\ recvNonce' = [recvNonce EXCEPT ![e][s] = receiver[r].frame.seq]
        /\ receiver' = [receiver EXCEPT ![r].at = "open"]
        /\ UNCHANGED <<channel, made, nonce, seen, sendMu, sender, net, sent, writes>>
    BY DEF SetNonce, histories
  <1>2. TypeOK'
    <2>1. recvMu' \in [End -> [Sess -> Receiver \cup {None}]]
      BY <1>0, <1>1 DEF TypeOK
    <2>2. recvNonce' \in [End -> [Sess -> Counter]]
      BY <1>0, <1>1 DEF TypeOK
    <2>3. receiver' \in [Receiver -> ReceiverState]
      BY <1>0, <1>1 DEF TypeOK, ReceiverState
    <2>4. QED
      BY <1>1, <2>1, <2>2, <2>3 DEF TypeOK
  <1>3. LocksAreBrief'
    BY <1>0, <1>1 DEF LocksAreBrief, TypeOK, ReceiverState
  <1>4. ReceiverInv'
    <2> SUFFICES ASSUME NEW q \in Receiver PROVE ReceiverInv!(q)'
      BY DEF ReceiverInv
    <2>1. CASE q = r
      <3>1. recvMu'[e][s] = r /\ recvNonce'[e][s] = receiver[r].frame.seq
        BY <1>0, <1>1 DEF TypeOK
      <3>2. /\ receiver'[r].at = "open" /\ receiver'[r].frame = receiver[r].frame
            /\ receiver'[r].sess = s
        BY <1>0, <1>1 DEF TypeOK, ReceiverState
      <3>3. QED
        BY <1>0, <1>1, <2>1, <3>1, <3>2
    <2>2. CASE q # r
      <3>1. receiver'[q] = receiver[q]
        BY <1>1, <2>2 DEF TypeOK
      <3>2. ASSUME receiver[q].at = "open"
            PROVE  /\ recvMu'[EndOf(q)][receiver[q].sess] = q
                   /\ recvNonce'[EndOf(q)][receiver[q].sess] = receiver[q].frame.seq
        BY <1>0, <1>1, <2>2, <3>2, EndFacts DEF ReceiverInv, TypeOK
      <3>3. ReceiverInv!(q)
        BY DEF ReceiverInv
      <3>4. net' = net
        BY <1>1
      <3>5. QED
        BY <3>1, <3>2, <3>3, <3>4
    <2>3. QED
      BY <2>1, <2>2
  <1>5. SenderInv' /\ FrameInv' /\ SentInv' /\ WriteInv'
    BY <1>1 DEF SenderInv, FrameInv, SentInv, WriteInv
  <1>6. QED
    BY <1>2, <1>3, <1>4, <1>5

LEMMA OpenStep ==
    ASSUME IInv, NEW r \in Receiver, Open(r) PROVE IInv'
  <1> USE DEF IInv
  <1> DEFINE e == EndOf(r)
             s == receiver[r].sess
             p == receiver[r].prev
             Next_r == receiver'[r]
  <1>0. /\ e \in End /\ s \in Sess /\ None \notin Receiver
        /\ receiver[r].frame \in net /\ recvMu[e][s] = r
        /\ receiver[r] \in ReceiverState
    BY EndFacts, DataPathAssumption DEF Open, ReceiverInv, TypeOK, Receiver
  <1>1. /\ recvMu' = [recvMu EXCEPT ![e][s] = None]
        /\ \A q \in Receiver \ {r} : receiver'[q] = receiver[q]
        /\ UNCHANGED <<channel, made, nonce, recvNonce, seen, sendMu, sender, net, sent, writes>>
    BY DEF Open, TypeOK, cipherVars, histories
  <1>2. \/ /\ Next_r = [receiver[r] EXCEPT !.at = "accept"]
           /\ receiver[r].frame.key = RecvKey(e, s)
        \/ /\ Next_r = [receiver[r] EXCEPT !.at = "lock", !.sess = p, !.prev = NoSession]
           /\ p # NoSession
        \/ Next_r = Listening
    BY DEF Open, Authentic, TypeOK
  <1>3. /\ Next_r \in ReceiverState
        /\ Next_r.at # "open"
        /\ Next_r.at # "receive" => Next_r.frame \in net /\ Next_r.sess \in Sess
        /\ Next_r.at = "accept" => Next_r.frame.key = RecvKey(e, Next_r.sess)
    <2>1. p \in Sess \cup {NoSession} /\ Listening \in ReceiverState
      BY <1>0 DEF ReceiverState, Listening
    <2>2. CASE /\ Next_r = [receiver[r] EXCEPT !.at = "accept"]
               /\ receiver[r].frame.key = RecvKey(e, s)
      <3>1. /\ Next_r \in ReceiverState /\ Next_r.at = "accept"
            /\ Next_r.frame = receiver[r].frame /\ Next_r.sess = s
        BY <1>0, <2>2 DEF ReceiverState
      <3>2. QED
        BY <1>0, <2>2, <3>1
    <2>3. CASE /\ Next_r = [receiver[r] EXCEPT !.at = "lock", !.sess = p, !.prev = NoSession]
               /\ p # NoSession
      <3>1. /\ Next_r \in ReceiverState /\ Next_r.at = "lock"
            /\ Next_r.frame = receiver[r].frame /\ Next_r.sess = p
        BY <1>0, <2>1, <2>3 DEF ReceiverState
      <3>2. QED
        BY <1>0, <2>1, <2>3, <3>1
    <2>4. CASE Next_r = Listening
      BY <2>1, <2>4 DEF Listening
    <2>5. QED
      BY <1>2, <2>2, <2>3, <2>4
  <1>4. TypeOK'
    <2>1. recvMu' \in [End -> [Sess -> Receiver \cup {None}]]
      BY <1>0, <1>1 DEF TypeOK
    <2>2. receiver' = [receiver EXCEPT ![r] = Next_r]
      BY DEF Open, TypeOK
    <2>3. receiver' \in [Receiver -> ReceiverState]
      BY <1>3, <2>2 DEF TypeOK
    <2>4. QED
      BY <1>1, <2>1, <2>3 DEF TypeOK
  <1>5. LocksAreBrief'
    <2> SUFFICES ASSUME NEW d \in End, NEW z \in Sess, NEW q \in Receiver, recvMu'[d][z] = q
                 PROVE  EndOf(q) = d /\ receiver'[q].at = "open" /\ receiver'[q].sess = z
      BY <1>1 DEF LocksAreBrief
    <2>1. recvMu[d][z] = q /\ ~(d = e /\ z = s)
      BY <1>0, <1>1 DEF TypeOK
    <2>2. EndOf(q) = d /\ receiver[q].at = "open" /\ receiver[q].sess = z /\ q # r
      BY <1>0, <2>1 DEF LocksAreBrief
    <2>3. QED
      BY <1>1, <2>2
  <1>6. ReceiverInv'
    <2> SUFFICES ASSUME NEW q \in Receiver PROVE ReceiverInv!(q)'
      BY DEF ReceiverInv
    <2>1. CASE q = r
      BY <1>1, <1>3, <2>1
    <2>2. CASE q # r
      <3>1. receiver'[q] = receiver[q] /\ recvNonce' = recvNonce /\ net' = net
        BY <1>1, <2>2
      <3>2. ASSUME receiver[q].at = "open"
            PROVE  recvMu'[EndOf(q)][receiver[q].sess] = q
        BY <1>0, <1>1, <2>2, <3>2, EndFacts DEF ReceiverInv, TypeOK
      <3>3. ReceiverInv!(q)
        BY DEF ReceiverInv
      <3>4. QED
        BY <3>1, <3>2, <3>3
    <2>3. QED
      BY <2>1, <2>2
  <1>7. SenderInv' /\ FrameInv' /\ SentInv' /\ WriteInv'
    BY <1>1 DEF SenderInv, FrameInv, SentInv, WriteInv
  <1>8. QED
    BY <1>4, <1>5, <1>6, <1>7

\* A fresh frame carries a packet that was not handed up here before.
LEMMA FreshIsNew ==
    ASSUME IInv, NEW f \in net, NEW e \in End, NEW s \in Sess,
           f.key = RecvKey(e, s), f.seq \notin seen[e][s]
    PROVE  f.pkt \in Packet /\ <<f.pkt, e>> \in sent /\ writes[<<f.pkt, e>>] = 0
  <1> USE DEF IInv
  <1>0. f \in Frame
    BY DEF TypeOK
  <1>1. f.pkt \in Packet /\ FarEnd(f.key) = e /\ f.key[1] = s
    BY <1>0, EndFacts DEF Frame
  <1>2. <<f.pkt, e>> \in sent
    BY <1>1 DEF FrameInv
  <1>3. ASSUME writes[<<f.pkt, e>>] # 0 PROVE FALSE
    <2>1. PICK g \in net : g.pkt = f.pkt /\ FarEnd(g.key) = e /\ g.seq \in seen[e][g.key[1]]
      BY <1>1, <1>3 DEF WriteInv
    <2>2. g = f
      BY <2>1 DEF FrameInv
    <2>3. QED
      BY <1>1, <2>1, <2>2
  <1>4. QED
    BY <1>1, <1>2, <1>3

LEMMA AcceptStep ==
    ASSUME IInv, NEW r \in Receiver, Accept(r) PROVE IInv'
  <1> USE DEF IInv
  <1> DEFINE e == EndOf(r)
             s == receiver[r].sess
             f == receiver[r].frame
  <1>0. /\ e \in End /\ s \in Sess /\ f \in net /\ f.key = RecvKey(e, s)
        /\ f.seq \in Counter /\ f.pkt \in Packet /\ FarEnd(f.key) = e /\ f.key[1] = s
    <2>1. e \in End /\ s \in Sess /\ f \in net /\ f.key = RecvKey(e, s)
      BY EndFacts DEF Accept, ReceiverInv
    <2>2. f \in Frame
      BY <2>1 DEF TypeOK
    <2>3. f.seq \in Counter /\ f.pkt \in Packet
      BY <2>2 DEF Frame
    <2>4. FarEnd(f.key) = e /\ f.key[1] = s
      BY <2>1, EndFacts
    <2>5. QED
      BY <2>1, <2>3, <2>4
  <1>1. /\ receiver' = [receiver EXCEPT ![r] = Listening]
        /\ UNCHANGED <<channel, made, nonce, recvNonce, sendMu, recvMu, sender, net, sent>>
    BY DEF Accept
  <1>2. \/ /\ f.seq \notin seen[e][s]
           /\ seen' = [seen EXCEPT ![e][s] = @ \cup {f.seq}]
           /\ writes' = [writes EXCEPT ![<<f.pkt, e>>] = @ + 1]
        \/ UNCHANGED <<seen, writes>>
    BY DEF Accept, Fresh
  <1>3. /\ seen' \in [End -> [Sess -> SUBSET Counter]]
        /\ writes' \in [Packet \X End -> 0 .. 1]
        /\ \A d \in End, z \in Sess : seen[d][z] \subseteq seen'[d][z]
    <2>1. CASE UNCHANGED <<seen, writes>>
      BY <2>1 DEF TypeOK
    <2>2. CASE /\ f.seq \notin seen[e][s]
               /\ seen' = [seen EXCEPT ![e][s] = @ \cup {f.seq}]
               /\ writes' = [writes EXCEPT ![<<f.pkt, e>>] = @ + 1]
      <3>1. writes[<<f.pkt, e>>] = 0
        BY <1>0, <2>2, FreshIsNew
      <3>2. <<f.pkt, e>> \in Packet \X End
        BY <1>0
      <3>3. writes' \in [Packet \X End -> 0 .. 1]
        BY <2>2, <3>1, <3>2 DEF TypeOK
      <3>4. seen' \in [End -> [Sess -> SUBSET Counter]]
        BY <1>0, <2>2 DEF TypeOK
      <3>5. \A d \in End, z \in Sess : seen[d][z] \subseteq seen'[d][z]
        BY <1>0, <2>2 DEF TypeOK
      <3>6. QED
        BY <3>3, <3>4, <3>5
    <2>3. QED
      BY <1>2, <2>1, <2>2
  <1>4. TypeOK'
    <2>1. receiver' \in [Receiver -> ReceiverState]
      BY <1>1, CounterAssumption DEF TypeOK, ReceiverState, Listening
    <2>2. QED
      BY <1>1, <1>3, <2>1 DEF TypeOK
  <1>5. LocksAreBrief'
    BY <1>1 DEF Accept, LocksAreBrief, TypeOK
  <1>6. ReceiverInv'
    <2> SUFFICES ASSUME NEW q \in Receiver PROVE ReceiverInv!(q)'
      BY DEF ReceiverInv
    <2>1. CASE q = r
      BY <1>1, <2>1 DEF TypeOK, Listening
    <2>2. CASE q # r
      <3>1. receiver'[q] = receiver[q] /\ recvNonce' = recvNonce /\ recvMu' = recvMu /\ net' = net
        BY <1>1, <2>2 DEF TypeOK
      <3>2. ReceiverInv!(q)
        BY DEF ReceiverInv
      <3>3. QED
        BY <3>1, <3>2
    <2>3. QED
      BY <2>1, <2>2
  <1>7. WriteInv'
    <2> SUFFICES ASSUME NEW p \in Packet, NEW d \in End, writes'[<<p, d>>] # 0
                 PROVE  \E g \in net' : /\ g.pkt = p
                                        /\ FarEnd(g.key) = d
                                        /\ g.seq \in seen'[d][g.key[1]]
      BY DEF WriteInv
    <2>1. CASE writes[<<p, d>>] # 0
      <3>1. PICK g \in net : g.pkt = p /\ FarEnd(g.key) = d /\ g.seq \in seen[d][g.key[1]]
        BY <2>1 DEF WriteInv
      <3>2. g.key[1] \in Sess
        BY EndFacts DEF TypeOK, Frame
      <3>3. QED
        BY <1>1, <1>3, <3>1, <3>2
    <2>2. CASE writes[<<p, d>>] = 0
      <3>1. /\ seen' = [seen EXCEPT ![e][s] = @ \cup {f.seq}]
            /\ writes' = [writes EXCEPT ![<<f.pkt, e>>] = @ + 1]
        BY <1>2, <2>2
      <3>2. <<p, d>> = <<f.pkt, e>>
        BY <1>0, <2>2, <3>1 DEF TypeOK
      <3>3. f.seq \in seen'[e][s]
        BY <1>0, <3>1 DEF TypeOK
      <3>4. QED
        BY <1>0, <1>1, <3>2, <3>3
    <2>3. QED
      BY <2>1, <2>2
  <1>8. SenderInv' /\ FrameInv' /\ SentInv'
    BY <1>1 DEF SenderInv, FrameInv, SentInv
  <1>9. QED
    BY <1>4, <1>5, <1>6, <1>7, <1>8

LEMMA RotateStep ==
    ASSUME IInv, NEW r \in Receiver,
           ServerRotates(r) \/ \E s \in Sess : ClientRotates(r, s)
    PROVE  IInv'
  <1> USE DEF IInv
  <1>1. TypeOK'
    <2>1. CASE ServerRotates(r)
      <3>1. made + 1 \in Sess
        BY <2>1, DataPathAssumption DEF ServerRotates, TypeOK, Sess
      <3>2. channel' \in [End -> Channels(Sess)]
        BY <2>1, <3>1, RotatedType DEF ServerRotates, TypeOK, End
      <3>3. QED
        BY <2>1, <3>1, <3>2 DEF ServerRotates, TypeOK, cipherVars, histories
    <2>2. ASSUME NEW s \in Sess, ClientRotates(r, s) PROVE TypeOK'
      <3>1. channel' \in [End -> Channels(Sess)]
        BY <2>2, RotatedType DEF ClientRotates, TypeOK, End
      <3>2. QED
        BY <2>2, <3>1 DEF ClientRotates, TypeOK, cipherVars, histories
    <2>3. QED
      BY <2>1, <2>2
  <1>2. UNCHANGED <<nonce, recvNonce, seen, sendMu, recvMu, sender, receiver, net, sent, writes>>
    BY DEF ServerRotates, ClientRotates, cipherVars, histories
  <1>3. QED
    BY <1>1, <1>2 DEF LocksAreBrief, SenderInv, ReceiverInv, FrameInv, SentInv, WriteInv

LEMMA TickStep ==
    ASSUME IInv, Tick PROVE IInv'
  <1> USE DEF IInv
  <1>1. channel' \in [End -> Channels(Sess)]
    BY AgedType DEF Tick, TypeOK
  <1>2. UNCHANGED <<made, nonce, recvNonce, seen, sendMu, recvMu, sender, receiver, net, sent, writes>>
    BY DEF Tick, cipherVars, histories
  <1>3. QED
    BY <1>1, <1>2 DEF TypeOK, LocksAreBrief, SenderInv, ReceiverInv, FrameInv, SentInv, WriteInv

LEMMA StutterStep == ASSUME IInv, UNCHANGED vars PROVE IInv'
  BY DEF vars, IInv, TypeOK, LocksAreBrief, SenderInv, ReceiverInv, FrameInv, SentInv, WriteInv

LEMMA StepInvariant == IInv /\ [Next]_vars => IInv'
  <1> SUFFICES ASSUME IInv, [Next]_vars PROVE IInv'
    OBVIOUS
  <1>1. ASSUME NEW t \in Sender, Encrypting(t) PROVE IInv'
    BY <1>1, PickSessionStep, TakeCounterStep, ExhaustedStep, SealStep DEF Encrypting
  <1>2. ASSUME NEW t \in Sender, NEW p \in Packet, ReadTun(t, p) PROVE IInv'
    BY <1>2, ReadTunStep
  <1>3. ASSUME NEW r \in Receiver, Decrypting(r) PROVE IInv'
    BY <1>3, SetNonceStep, OpenStep, AcceptStep DEF Decrypting
  <1>4. ASSUME NEW r \in Receiver, NEW f \in net, ReceiveFrame(r, f) PROVE IInv'
    BY <1>4, ReceiveFrameStep
  <1>5. ASSUME NEW r \in Receiver, ServerRotates(r) \/ \E s \in Sess : ClientRotates(r, s)
        PROVE  IInv'
    BY <1>5, RotateStep
  <1>6. CASE Tick
    BY <1>6, TickStep
  <1>7. CASE UNCHANGED vars
    BY <1>7, StutterStep
  <1>8. QED
    BY <1>1, <1>2, <1>3, <1>4, <1>5, <1>6, <1>7 DEF Next

LEMMA SpecInvariant == Spec => []IInv
  BY InitInvariant, StepInvariant, PTL DEF Spec

-----------------------------------------------------------------------------

(***************************************************************************)
(* With any number of goroutines at both ends: every variable keeps its    *)
(* type, no nonce seals two frames and each header carries the nonce of    *)
(* its frame, and no mutex outlives the call that took it                  *)
(* (Session.Encrypt and Session.Decrypt).                                  *)
(***************************************************************************)
THEOREM DataPathSafe == Spec => [](TypeOK /\ NonceOnce /\ LocksAreBrief)
  <1>1. IInv => TypeOK /\ NonceOnce /\ LocksAreBrief
    BY DEF IInv, FrameInv, NonceOnce
  <1>2. QED
    BY <1>1, SpecInvariant, PTL

(***************************************************************************)
(* With any number of goroutines every program counter, lock, counter and  *)
(* frame of the data path keeps its type, and no packet is handed up       *)
(* twice.                                                                  *)
(***************************************************************************)
COROLLARY DataPathTypes == Spec => []TypeOK
  BY DataPathSafe, PTL

(***************************************************************************)
(* With any number of goroutines, whoever holds sendMu or recvMu is inside *)
(* the call that took it, between the lock and the deferred unlock         *)
(* (Session.Encrypt and Session.Decrypt).                                  *)
(***************************************************************************)
COROLLARY LocksAreReturned == Spec => []LocksAreBrief
  BY DataPathSafe, PTL

(***************************************************************************)
(* With any number of goroutines, a genuine frame tried under its own      *)
(* session authenticates: recvMu keeps the nonce where SetNonce put it     *)
(* (Session.Decrypt).                                                      *)
(***************************************************************************)
THEOREM GenuineFramesOpen == Spec => GenuineOpens
  <1> DEFINE Fine ==
        \A r \in Receiver :
            /\ receiver[r].at = "open"
            /\ receiver[r].frame.key = RecvKey(EndOf(r), receiver[r].sess)
            /\ receiver'[r] # receiver[r]
            => receiver'[r].at = "accept"
  <1>1. IInv /\ [Next]_vars => [Fine]_vars
    <2> SUFFICES ASSUME IInv, Next,
                        NEW r \in Receiver,
                        receiver[r].at = "open",
                        receiver[r].frame.key = RecvKey(EndOf(r), receiver[r].sess),
                        receiver'[r] # receiver[r]
                 PROVE  receiver'[r].at = "accept"
      BY DEF vars
    <2>1. Open(r)
      <3>1. receiver \in [Receiver -> ReceiverState]
        BY DEF IInv, TypeOK
      <3>2. ASSUME NEW q \in Receiver, q # r,
                   \/ Decrypting(q) \/ (\E f \in net : ReceiveFrame(q, f))
                   \/ ServerRotates(q) \/ (\E s \in Sess : ClientRotates(q, s))
            PROVE  FALSE
        BY <3>1, <3>2
        DEF Decrypting, SetNonce, Open, Accept, ReceiveFrame, ServerRotates, ClientRotates
      <3>3. ASSUME NEW t \in Sender, Encrypting(t) \/ \E p \in Packet : ReadTun(t, p)
            PROVE  FALSE
        BY <3>3 DEF Encrypting, PickSession, TakeCounter, Exhausted, Seal, ReadTun
      <3>4. ~Tick
        BY DEF Tick
      <3>5. \/ Decrypting(r) \/ (\E f \in net : ReceiveFrame(r, f))
            \/ ServerRotates(r) \/ (\E s \in Sess : ClientRotates(r, s))
        BY <3>2, <3>3, <3>4 DEF Next
      <3>6. QED
        BY <3>5 DEF Decrypting, SetNonce, Accept, ReceiveFrame, ServerRotates, ClientRotates
    <2>2. receiver[r].frame.nonce = recvNonce[EndOf(r)][receiver[r].sess]
      BY DEF IInv, ReceiverInv, FrameInv
    <2>3. QED
      BY <2>1, <2>2 DEF Open, Authentic, IInv, TypeOK, ReceiverState
  <1>2. QED
    BY <1>1, SpecInvariant, PTL DEF Spec, GenuineOpens

-----------------------------------------------------------------------------

(***************************************************************************)
(* Lock by lock, the data path implements the datagram service: whatever   *)
(* the network duplicates, reorders or hands back, and whatever rotates    *)
(* while a frame is being opened, a packet comes out only at the far end,  *)
(* once (Channel.Encrypt, Channel.Decrypt).                                *)
(***************************************************************************)
THEOREM DataPathDelivers == Spec => DeliverySpec
  <1>1. Init => AtMostOnce!Init
    BY DEF Init, AtMostOnce!Init
  <1>2. IInv /\ [Next]_vars => [AtMostOnce!Next]_<<sent, writes>>
    <2> SUFFICES ASSUME IInv, [Next]_vars
                 PROVE  AtMostOnce!Next \/ UNCHANGED <<sent, writes>>
      OBVIOUS
    <2>1. ASSUME NEW t \in Sender, Seal(t) PROVE AtMostOnce!Next
      <3> DEFINE p == sender[t].pkt
                 e == Other(EndOf(t))
      <3>1. p \in Packet /\ e \in End /\ \A f \in net : f.pkt # p
        BY <2>1, EndFacts DEF Seal, IInv, SenderInv, TypeOK, SenderState, End, Other
      <3>2. <<p, e>> \in Packet \X End /\ <<p, e>> \notin sent
        BY <3>1 DEF IInv, SentInv
      <3>3. sent' = sent \cup {<<p, e>>} /\ writes' = writes
        BY <2>1 DEF Seal
      <3>4. QED
        BY <3>2, <3>3 DEF AtMostOnce!Next, AtMostOnce!Send
    <2>2. ASSUME NEW r \in Receiver, Accept(r)
          PROVE  AtMostOnce!Next \/ UNCHANGED <<sent, writes>>
      <3> DEFINE e == EndOf(r)
                 s == receiver[r].sess
                 f == receiver[r].frame
      <3>1. /\ e \in End /\ s \in Sess /\ f \in net /\ f.key = RecvKey(e, s)
        BY <2>2, EndFacts DEF Accept, IInv, ReceiverInv
      <3>2. CASE UNCHANGED <<seen, writes>>
        BY <2>2, <3>2 DEF Accept
      <3>3. CASE /\ f.seq \notin seen[e][s]
                 /\ writes' = [writes EXCEPT ![<<f.pkt, e>>] = @ + 1]
        <4>1. /\ f.pkt \in Packet /\ <<f.pkt, e>> \in sent /\ writes[<<f.pkt, e>>] = 0
          BY <3>1, <3>3, FreshIsNew
        <4>2. writes' = [writes EXCEPT ![<<f.pkt, e>>] = 1] /\ sent' = sent
          BY <2>2, <3>3, <4>1 DEF Accept
        <4>3. <<f.pkt, e>> \in Packet \X End
          BY <3>1, <4>1
        <4>4. QED
          BY <4>1, <4>2, <4>3 DEF AtMostOnce!Next, AtMostOnce!Deliver
      <3>4. QED
        BY <2>2, <3>2, <3>3 DEF Accept, Fresh
    <2>3. ASSUME NEW t \in Sender,
                 \/ PickSession(t) \/ TakeCounter(t) \/ Exhausted(t)
                 \/ \E p \in Packet : ReadTun(t, p)
          PROVE  UNCHANGED <<sent, writes>>
      BY <2>3 DEF PickSession, TakeCounter, Exhausted, ReadTun, histories
    <2>4. ASSUME NEW r \in Receiver,
                 \/ SetNonce(r) \/ Open(r) \/ (\E f \in net : ReceiveFrame(r, f))
                 \/ ServerRotates(r) \/ (\E s \in Sess : ClientRotates(r, s))
          PROVE  UNCHANGED <<sent, writes>>
      BY <2>4 DEF SetNonce, Open, ReceiveFrame, ServerRotates, ClientRotates, histories
    <2>5. CASE Tick \/ UNCHANGED vars
      BY <2>5 DEF Tick, histories, vars
    <2>6. QED
      BY <2>1, <2>2, <2>3, <2>4, <2>5 DEF Next, Encrypting, Decrypting
  <1>3. QED
    BY <1>1, <1>2, SpecInvariant, PTL DEF Spec, DeliverySpec, AtMostOnce!Spec

=============================================================================
