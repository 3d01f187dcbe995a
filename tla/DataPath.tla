------------------------------ MODULE DataPath ------------------------------
(***************************************************************************)
(* The data path of one tunnel at the granularity of its locks: the        *)
(* goroutines of both ends call Encrypt and Decrypt of src/pkg/session,    *)
(* which take the lock of the channel, of a cipher state and of the replay *)
(* window one after the other, while another goroutine may rotate the      *)
(* channel in between.  Tunnel takes each of these calls as one step; this *)
(* module is about what may happen inside them.                            *)
(*                                                                         *)
(* The network may delay, reorder and duplicate frames, lose them, and     *)
(* hand one back to the end that sealed it.                                *)
(***************************************************************************)
EXTENDS ChannelOps

CONSTANTS
    ClientSender, ServerSender,      \* goroutines that call Encrypt
    ClientReceiver, ServerReceiver,  \* goroutines that call Decrypt and Rotate
    UpPacket,      \* IP packets of the client's TUN device, each read once
    DownPacket,    \* IP packets of the server's TUN device, each read once
    MaxSessions,   \* bound on the sessions negotiated
    None           \* no goroutine, no packet, no frame

ASSUME DataPathAssumption ==
    /\ MaxSessions \in Nat \ {0}
    /\ UpPacket \cap DownPacket = {}
    /\ NoSession \notin Nat
    /\ None \notin UpPacket \cup DownPacket
    /\ None \notin ClientSender \cup ServerSender \cup ClientReceiver \cup ServerReceiver
    /\ (ClientSender \cup ClientReceiver) \cap (ServerSender \cup ServerReceiver) = {}

End == {"client", "server"}
Other(e) == IF e = "client" THEN "server" ELSE "client"
Sess == 1 .. MaxSessions
Packet == UpPacket \cup DownPacket
PacketsOf(e) == IF e = "client" THEN UpPacket ELSE DownPacket

Sender == ClientSender \cup ServerSender
Receiver == ClientReceiver \cup ServerReceiver
EndOf(g) == IF g \in ClientSender \cup ClientReceiver THEN "client" ELSE "server"

VARIABLES
    channel,       \* the Channel of each end
    made,          \* the sessions negotiated so far are 1 .. made
    nonce,         \* Session.send: the nonce of the sending cipher state
    recvNonce,     \* Session.recv: the nonce of the receiving cipher state
    seen,          \* Session.replay: the counters accepted
    sendMu, recvMu,\* Session.sendMu and recvMu: who holds them
    sender,        \* what each goroutine that sends is about to do
    receiver,      \* what each goroutine that receives is about to do
    net,           \* the frames sealed and handed to the network
    sent,          \* history: which packet was sent to which end
    writes         \* history: how often each was handed up at each end

vars == <<channel, made, nonce, recvNonce, seen, sendMu, recvMu, sender,
          receiver, net, sent, writes>>

cipherVars == <<nonce, recvNonce, seen>>
histories == <<sent, writes>>

\* The two cipher states of a session: the initiator sends with the first and
\* receives with the second, the responder the other way round.
Key == Sess \X {1, 2}
SendKey(e, s) == <<s, IF e = "client" THEN 1 ELSE 2>>
RecvKey(e, s) == <<s, IF e = "client" THEN 2 ELSE 1>>

\* The header carries seq; the ciphertext authenticates under key and nonce only.
Frame == [key : Key, nonce : Counter, seq : Counter, pkt : Packet]

Reading == [at |-> "read", pkt |-> None, sess |-> NoSession, seq |-> 0]
Listening == [at |-> "receive", frame |-> None, sess |-> NoSession, prev |-> NoSession]

Init ==
    /\ channel = [e \in End |-> NewChannel(1)]
    /\ made = 1
    /\ nonce = [e \in End |-> [s \in Sess |-> 0]]
    /\ recvNonce = [e \in End |-> [s \in Sess |-> 0]]
    /\ seen = [e \in End |-> [s \in Sess |-> {}]]
    /\ sendMu = [e \in End |-> [s \in Sess |-> None]]
    /\ recvMu = [e \in End |-> [s \in Sess |-> None]]
    /\ sender = [t \in Sender |-> Reading]
    /\ receiver = [r \in Receiver |-> Listening]
    /\ net = {}
    /\ sent = {}
    /\ writes = [d \in Packet \X End |-> 0]

-----------------------------------------------------------------------------
(* handleTUN, Channel.Encrypt and Session.Encrypt.                         *)

Unread(p) ==
    /\ \A t \in Sender : sender[t].pkt # p
    /\ \A f \in net : f.pkt # p

\* A packet is read from the TUN device.
ReadTun(t, p) ==
    /\ sender[t].at = "read"
    /\ p \in PacketsOf(EndOf(t))
    /\ Unread(p)
    /\ sender' = [sender EXCEPT ![t] = [@ EXCEPT !.at = "encrypt", !.pkt = p]]
    /\ UNCHANGED <<channel, made, cipherVars, sendMu, recvMu, receiver, net, histories>>

\* Channel.Encrypt reads the current session and releases its lock.
PickSession(t) ==
    /\ sender[t].at = "encrypt"
    /\ sender' = [sender EXCEPT ![t] =
                    [@ EXCEPT !.at = "lock", !.sess = channel[EndOf(t)].cur]]
    /\ UNCHANGED <<channel, made, cipherVars, sendMu, recvMu, receiver, net, histories>>

\* Mutant: the counter is read before the lock is taken.
TakeCounterUnlocked(t) ==
    LET e == EndOf(t)
        s == sender[t].sess
    IN  /\ sender[t].at = "lock"
        /\ nonce[e][s] <= MaxCounter
        /\ sender' = [sender EXCEPT ![t] = [@ EXCEPT !.at = "seal", !.seq = nonce[e][s]]]
        /\ UNCHANGED <<channel, made, cipherVars, sendMu, recvMu, receiver, net, histories>>

\* sendMu is taken and the counter of the frame read from the cipher state.
TakeCounter(t) ==
    LET e == EndOf(t)
        s == sender[t].sess
    IN  /\ sender[t].at = "lock"
        /\ sendMu[e][s] = None
        /\ nonce[e][s] <= MaxCounter
        /\ sendMu' = [sendMu EXCEPT ![e][s] = t]
        /\ sender' = [sender EXCEPT ![t] = [@ EXCEPT !.at = "seal", !.seq = nonce[e][s]]]
        /\ UNCHANGED <<channel, made, cipherVars, recvMu, receiver, net, histories>>

\* Mutant: the return on the error forgets to unlock.
ExhaustedLocked(t) ==
    LET e == EndOf(t)
        s == sender[t].sess
    IN  /\ sender[t].at = "lock"
        /\ sendMu[e][s] = None
        /\ nonce[e][s] > MaxCounter
        /\ sendMu' = [sendMu EXCEPT ![e][s] = t]
        /\ sender' = [sender EXCEPT ![t] = Reading]
        /\ UNCHANGED <<channel, made, cipherVars, recvMu, receiver, net, histories>>

\* The cipher state refuses a nonce past the last; the packet is dropped.
Exhausted(t) ==
    LET e == EndOf(t)
        s == sender[t].sess
    IN  /\ sender[t].at = "lock"
        /\ sendMu[e][s] = None
        /\ nonce[e][s] > MaxCounter
        /\ sender' = [sender EXCEPT ![t] = Reading]
        /\ UNCHANGED <<channel, made, cipherVars, sendMu, recvMu, receiver, net, histories>>

\* The cipher state seals under its own nonce and steps it; sendMu is released,
\* and the frame handed to the network, which may lose it.
Seal(t) ==
    LET e == EndOf(t)
        s == sender[t].sess
        p == sender[t].pkt
        f == [key |-> SendKey(e, s), nonce |-> nonce[e][s], seq |-> sender[t].seq, pkt |-> p]
    IN  /\ sender[t].at = "seal"
        /\ nonce' = [nonce EXCEPT ![e][s] = @ + 1]
        /\ sendMu' = [sendMu EXCEPT ![e][s] = None]
        /\ net' = net \cup {f}
        /\ sent' = sent \cup {<<p, Other(e)>>}
        /\ sender' = [sender EXCEPT ![t] = Reading]
        /\ UNCHANGED <<channel, made, recvNonce, seen, recvMu, receiver, writes>>

Encrypting(t) == PickSession(t) \/ TakeCounter(t) \/ Exhausted(t) \/ Seal(t)

-----------------------------------------------------------------------------
(* handleUDP, Channel.Decrypt and Session.Decrypt.                         *)

\* A frame arrives; Channel.Decrypt reads the two sessions and the clock.
ReceiveFrame(r, f) ==
    LET ch == channel[EndOf(r)]
    IN  /\ receiver[r].at = "receive"
        /\ f \in net
        /\ receiver' = [receiver EXCEPT ![r] =
                          [at |-> "lock", frame |-> f, sess |-> ch.cur,
                           prev |-> IF PrevValid(ch) THEN ch.prev ELSE NoSession]]
        /\ UNCHANGED <<channel, made, cipherVars, sendMu, recvMu, sender, net, histories>>

\* Mutant: the nonce is only ever set forwards.
SetNonceForwards(r) ==
    LET e == EndOf(r)
        s == receiver[r].sess
        n == receiver[r].frame.seq
    IN  /\ receiver[r].at = "lock"
        /\ recvMu[e][s] = None
        /\ recvMu' = [recvMu EXCEPT ![e][s] = r]
        /\ recvNonce' = [recvNonce EXCEPT ![e][s] = IF n > @ THEN n ELSE @]
        /\ receiver' = [receiver EXCEPT ![r].at = "open"]
        /\ UNCHANGED <<channel, made, nonce, seen, sendMu, sender, net, histories>>

\* recvMu is taken and the nonce of the cipher state set to the counter received.
SetNonce(r) ==
    LET e == EndOf(r)
        s == receiver[r].sess
    IN  /\ receiver[r].at = "lock"
        /\ recvMu[e][s] = None
        /\ recvMu' = [recvMu EXCEPT ![e][s] = r]
        /\ recvNonce' = [recvNonce EXCEPT ![e][s] = receiver[r].frame.seq]
        /\ receiver' = [receiver EXCEPT ![r].at = "open"]
        /\ UNCHANGED <<channel, made, nonce, seen, sendMu, sender, net, histories>>

\* Mutant: any frame authenticates under the session it names.
OpensUnder(f, e, s) == f.key[1] = s /\ f.nonce = recvNonce[e][s]

\* The ciphertext authenticates under the receiving cipher state of s.
Authentic(f, e, s) == f.key = RecvKey(e, s) /\ f.nonce = recvNonce[e][s]

\* The cipher state opens the frame or not, and recvMu is released.  A frame
\* that did not authenticate is tried once more, under the previous session.
Open(r) ==
    LET e == EndOf(r)
        s == receiver[r].sess
        p == receiver[r].prev
    IN  /\ receiver[r].at = "open"
        /\ recvMu' = [recvMu EXCEPT ![e][s] = None]
        /\ \/ /\ Authentic(receiver[r].frame, e, s)
              /\ receiver' = [receiver EXCEPT ![r].at = "accept"]
           \/ /\ ~Authentic(receiver[r].frame, e, s)
              /\ p # NoSession
              /\ receiver' = [receiver EXCEPT ![r] =
                                [@ EXCEPT !.at = "lock", !.sess = p, !.prev = NoSession]]
           \/ /\ ~Authentic(receiver[r].frame, e, s)
              /\ p = NoSession
              /\ receiver' = [receiver EXCEPT ![r] = Listening]
        /\ UNCHANGED <<channel, made, cipherVars, sendMu, sender, net, histories>>

\* Mutant: the answer of the window is not looked at.
AcceptAny(r) ==
    LET e == EndOf(r)
        s == receiver[r].sess
        f == receiver[r].frame
    IN  /\ receiver[r].at = "accept"
        /\ seen' = [seen EXCEPT ![e][s] = @ \cup {f.seq}]
        /\ writes' = [writes EXCEPT ![<<f.pkt, e>>] = @ + 1]
        /\ receiver' = [receiver EXCEPT ![r] = Listening]
        /\ UNCHANGED <<channel, made, nonce, recvNonce, sendMu, recvMu, sender,
                       net, sent>>

\* accept of the replay window, under its own lock; a fresh frame is handed up.
Accept(r) ==
    LET e == EndOf(r)
        s == receiver[r].sess
        f == receiver[r].frame
    IN  /\ receiver[r].at = "accept"
        /\ \/ /\ Fresh(seen[e][s], f.seq)
              /\ seen' = [seen EXCEPT ![e][s] = @ \cup {f.seq}]
              /\ writes' = [writes EXCEPT ![<<f.pkt, e>>] = @ + 1]
           \/ ~Fresh(seen[e][s], f.seq) /\ UNCHANGED <<seen, writes>>
        /\ receiver' = [receiver EXCEPT ![r] = Listening]
        /\ UNCHANGED <<channel, made, nonce, recvNonce, sendMu, recvMu, sender,
                       net, sent>>

Decrypting(r) == SetNonce(r) \/ Open(r) \/ Accept(r)

-----------------------------------------------------------------------------
(* Handshakes and time.                                                    *)

\* A handshake gave both ends a new session; the server rotates to it at once.
ServerRotates(r) ==
    /\ EndOf(r) = "server"
    /\ receiver[r].at = "receive"
    /\ made < MaxSessions
    /\ made' = made + 1
    /\ channel' = [channel EXCEPT !["server"] = Rotated(@, made + 1)]
    /\ UNCHANGED <<cipherVars, sendMu, recvMu, sender, receiver, net, histories>>

\* The client rotates to a session it has got the response for.
ClientRotates(r, s) ==
    /\ EndOf(r) = "client"
    /\ receiver[r].at = "receive"
    /\ s \in channel["client"].cur + 1 .. made
    /\ channel' = [channel EXCEPT !["client"] = Rotated(@, s)]
    /\ UNCHANGED <<made, cipherVars, sendMu, recvMu, sender, receiver, net, histories>>

Tick ==
    /\ channel' = [e \in End |-> Aged(channel[e])]
    /\ UNCHANGED <<made, cipherVars, sendMu, recvMu, sender, receiver, net, histories>>

Next ==
    \/ \E t \in Sender :
          Encrypting(t) \/ \E p \in Packet : ReadTun(t, p)
    \/ \E r \in Receiver :
          \/ Decrypting(r) \/ \E f \in net : ReceiveFrame(r, f)
          \/ ServerRotates(r) \/ \E s \in Sess : ClientRotates(r, s)
    \/ Tick

Spec == Init /\ [][Next]_vars

-----------------------------------------------------------------------------

SenderState ==
    [at : {"read", "encrypt", "lock", "seal"}, pkt : Packet \cup {None},
     sess : Sess \cup {NoSession}, seq : Counter]

ReceiverState ==
    [at : {"receive", "lock", "open", "accept"}, frame : Frame \cup {None},
     sess : Sess \cup {NoSession}, prev : Sess \cup {NoSession}]

(***************************************************************************)
(* Every variable keeps its type.                                          *)
(***************************************************************************)
TypeOK ==
    /\ channel \in [End -> Channels(Sess)]
    /\ made \in Sess
    /\ nonce \in [End -> [Sess -> 0 .. MaxCounter + 1]]
    /\ recvNonce \in [End -> [Sess -> Counter]]
    /\ seen \in [End -> [Sess -> SUBSET Counter]]
    /\ sendMu \in [End -> [Sess -> Sender \cup {None}]]
    /\ recvMu \in [End -> [Sess -> Receiver \cup {None}]]
    /\ sender \in [Sender -> SenderState]
    /\ receiver \in [Receiver -> ReceiverState]
    /\ net \subseteq Frame
    /\ sent \subseteq Packet \X End
    /\ writes \in [Packet \X End -> 0 .. 1]

(***************************************************************************)
(* No two frames of a direction of a session are sealed under one nonce,   *)
(* and the counter in the header is the nonce the frame was sealed with,   *)
(* whichever goroutines encrypt at once and whatever rotates in between    *)
(* (session.go: "guaranteeing nonce uniqueness within the session").       *)
(***************************************************************************)
NonceOnce ==
    \A f \in net :
        /\ f.seq = f.nonce
        /\ \A g \in net : g.key = f.key /\ g.nonce = f.nonce => g = f

(***************************************************************************)
(* A frame the other end sealed for a session always authenticates when it *)
(* is tried under that session, in whatever order frames arrive, are       *)
(* damaged or sent back, and whoever else decrypts at the same time: the   *)
(* nonce of the cipher state is the frame's own (Session.Decrypt).         *)
(***************************************************************************)
GenuineOpens ==
    [][\A r \in Receiver :
         /\ receiver[r].at = "open"
         /\ receiver[r].frame.key = RecvKey(EndOf(r), receiver[r].sess)
         /\ receiver'[r] # receiver[r]
         => receiver'[r].at = "accept"]_vars

(***************************************************************************)
(* A packet is handed up only at the far end of the path it was read from, *)
(* and once, whatever is delivered twice or to the wrong end and whichever *)
(* goroutines decrypt it at once.                                          *)
(***************************************************************************)
AtMostOnce == INSTANCE Delivery WITH Datagram <- Packet \X End
DeliverySpec == AtMostOnce!Spec

(***************************************************************************)
(* Whoever holds a mutex of a cipher state is inside the call that took it *)
(* and its next step, which waits for nobody, releases it: no error path   *)
(* keeps a lock, and no two goroutines wait for each other.                *)
(***************************************************************************)
LocksAreBrief ==
    \A e \in End, s \in Sess :
        /\ \A t \in Sender :
              sendMu[e][s] = t =>
                 EndOf(t) = e /\ sender[t].at = "seal" /\ sender[t].sess = s
        /\ \A r \in Receiver :
              recvMu[e][s] = r =>
                 EndOf(r) = e /\ receiver[r].at = "open" /\ receiver[r].sess = s

=============================================================================
