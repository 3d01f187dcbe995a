---------------------------- MODULE TunnelProofs ----------------------------
(***************************************************************************)
(* Proofs about the whole tunnel, for any number of clients, addresses,    *)
(* sessions, packets and table entries, whatever the network does and the  *)
(* timers are: it is an at-most-once datagram service, and only the keys   *)
(* of the allowlist get one.                                               *)
(***************************************************************************)
EXTENDS Tunnel, TLAPS

Firsts == {m \in net : m.type = "msg1"}
Frames == {m \in net : m.type = "data"}
Responses == {m \in net : m.type = "msg2"} \cup (IF reply = None THEN {} ELSE {reply})

Objects == {e \in Entry : entry[e] # None}

(***************************************************************************)
(* The inductive invariant, in five parts.                                 *)
(*                                                                         *)
(* Shapes: the types, and what a goroutine may rely on: whoever is named   *)
(* by the table, by the snapshot of handleTUN or by handleData is an       *)
(* object, of the address it was looked up for; a running client has an    *)
(* address and a session; a previous session is forgotten with its grace.  *)
(***************************************************************************)
KeepsNoOldKey(ch) == ch.prev # NoSession => ch.left > 0

ObjectsInUse ==
    /\ \A a \in Registered : clients[a] \in Objects /\ entry[clients[a]].addr = a
    /\ round.todo \subseteq Objects
    /\ \A e, f \in round.todo : e # f => entry[e].addr # entry[f].addr
    /\ taken # NothingTaken =>
         taken.entry \in Objects /\ entry[taken.entry].addr = taken.pkt.addr
    /\ \A e \in Objects : KeepsNoOldKey(entry[e].ch)

RoundShape ==
    /\ round = [pkt |-> round.pkt, todo |-> round.todo]
    /\ round.todo # {} => round.pkt \in DownPacket

ClientShape(c) ==
    /\ phase[c] # "down" => addr[c] \in Addr
    /\ phase[c] = "running" => channel[c].cur \in Sess
    /\ phase[c] # "running" => reading[c] = None /\ channel[c] = NewChannel(NoSession)
    /\ KeepsNoOldKey(channel[c])

WireShape ==
    /\ net \subseteq Message
    /\ sent \subseteq Datagram
    /\ writes \in [Datagram -> 0 .. 1]
    /\ disturbed \in BOOLEAN
    /\ restarts \in 0 .. MaxRestarts
    /\ gone \in [Addr -> Ages]

ServerShape == ServerTypeOK /\ ObjectsInUse /\ RoundShape
ClientsShape == ClientTypeOK /\ \A c \in Client : ClientShape(c)

Shapes == WireShape /\ ServerShape /\ ClientsShape

(***************************************************************************)
(* Owners: whose a session is.  A response that answers the initiator of a *)
(* client completes a session of that client, and so does the one it is    *)
(* about to rotate to; every session in use belongs to an allowed key.     *)
(***************************************************************************)
Owners ==
    /\ \A m \in Responses :
         /\ owner[m.sess] \in Allowed
         /\ \A c \in Client : m.ini = pending[c] => owner[m.sess] = c
    /\ \A m \in Firsts, c \in Client : m.ini = pending[c] => m.key = c
    /\ \A c \in Reading : owner[reading[c].sess] = c /\ c \in Allowed
    /\ \A c \in Running : \A s \in {channel[c].cur, channel[c].prev} \ {NoSession} :
         owner[s] = c /\ c \in Allowed
    /\ \A e \in Objects : \A s \in {entry[e].ch.cur, entry[e].ch.prev} \ {NoSession} :
         owner[s] \in Allowed
    /\ \A m \in Frames : owner[m.sess] \in Allowed

(***************************************************************************)
(* Untouched: a session some client is about to start using is new to the  *)
(* clients, so that its nonce and its window may start afresh.             *)
(***************************************************************************)
Awaited(s) ==
    \/ \E c \in Client, m \in Responses : m.ini = pending[c] /\ m.sess = s
    \/ \E c \in Reading : reading[c].sess = s

Untouched ==
    \A s \in Sess : Awaited(s) =>
       /\ \A c \in Client : s \notin {channel[c].cur, channel[c].prev}
       /\ \A m \in Frames : m.sess = s => m.dir = "down" /\ writes[DatagramOf(m)] = 0

(***************************************************************************)
(* Sealed: a nonce of a session and a direction is used once, a datagram   *)
(* is sealed once, and the packet handleTUN serves was not sealed yet for  *)
(* the clients it still has to serve.                                      *)
(***************************************************************************)
Nonce(m) == IF m.dir = "up" THEN cNonce[m.sess] ELSE sNonce[m.sess]
Seen(m) == IF m.dir = "up" THEN sSeen[m.sess] ELSE cSeen[m.sess]

Sealed ==
    /\ \A m \in Frames : DatagramOf(m) \in sent /\ m.seq < Nonce(m)
    /\ \A m, n \in Frames : DatagramOf(m) = DatagramOf(n) => m = n
    /\ \A m, n \in Frames :
         m.dir = n.dir /\ m.sess = n.sess /\ m.seq = n.seq => m = n
    /\ \A e \in round.todo :
         [dir |-> "down", addr |-> entry[e].addr, pkt |-> round.pkt] \notin sent

(***************************************************************************)
(* HandedUp: what was written to a TUN device, or is about to be, was sent *)
(* and its frames are in the window of the session they name.              *)
(***************************************************************************)
HandedUp ==
    /\ \A d \in Datagram : writes[d] # 0 => d \in sent
    /\ \A m \in Frames : writes[DatagramOf(m)] # 0 => m.seq \in Seen(m)
    /\ taken # NothingTaken =>
         /\ taken.pkt \in sent /\ taken.pkt.dir = "up" /\ writes[taken.pkt] = 0
         /\ \A m \in Frames : DatagramOf(m) = taken.pkt => m.seq \in Seen(m)

Inv == Shapes /\ Owners /\ Untouched /\ Sealed /\ HandedUp

-----------------------------------------------------------------------------
(* The assumptions on the constants, in the form the provers need. *)
LEMMA Facts ==
  /\ None \notin Addr /\ None \notin Client /\ None \notin Ini /\ None \notin Sess
  /\ None \notin Entry /\ None \notin Message /\ None \notin ClientObject
  /\ None \notin Reads /\ None \notin DownPacket /\ NoSession \notin Sess
  /\ Allowed \subseteq Client /\ MaxCounter \in Nat /\ Grace \in Nat /\ Grace >= 1
  /\ IdleLimit \in Nat /\ SweepPeriod \in Nat /\ SweepPeriod >= 1 /\ MaxRestarts \in Nat
<1>1. /\ None \notin Addr /\ None \notin Client /\ None \notin Ini /\ None \notin Sess
      /\ None \notin DownPacket /\ NoSession \notin Sess
  BY IdentitiesAssumption
<1>2. /\ None \notin Entry /\ Allowed \subseteq Client
      /\ IdleLimit \in Nat /\ SweepPeriod \in Nat /\ SweepPeriod >= 1
  BY ServerAssumption
<1> QED BY <1>1, <1>2, NoMessageAssumption, NoObjectAssumption, NoReadsAssumption,
           CounterAssumption, GraceAssumption, TunnelAssumption

(* What the fields of a message are. *)
LEMMA Fields ==
  ASSUME NEW m \in Message
  PROVE  /\ m.addr \in Addr
         /\ m.type \in {"msg1", "msg2", "data", "ping"}
         /\ m.type = "msg1" => m.ini \in Ini /\ m.key \in Client
         /\ m.type = "msg2" =>
              /\ m.ini \in Ini /\ m.sess \in Sess
              /\ m \in [type : {"msg2"}, addr : Addr, ini : Ini, sess : Sess]
         /\ m.type = "data" =>
              /\ m.dir \in {"up", "down"} /\ m.sess \in Sess
              /\ m.seq \in Counter /\ m.pkt \in Packet
              /\ DatagramOf(m) \in Datagram
              /\ DatagramOf(m) = [dir |-> m.dir, addr |-> m.addr, pkt |-> m.pkt]
BY DEF Message, Datagram, DatagramOf

(* A step after which no more is under way than before, but for pings. *)
NothingNew ==
    /\ \A m \in net' : m.type # "ping" => m \in net \/ (reply # None /\ m = reply)
    /\ reply' \in {reply, None}

MessagesQuiet ==
    /\ Firsts' \subseteq Firsts /\ Frames' \subseteq Frames
    /\ Responses' \subseteq Responses

LEMMA NothingNewIsQuiet ==
  ASSUME Inv, NothingNew
  PROVE  MessagesQuiet
<1>1. reply = None \/ reply.type = "msg2"
  BY DEF Inv, Shapes, ServerShape, ServerTypeOK
<1> QED BY <1>1, Facts DEF NothingNew, MessagesQuiet, Firsts, Frames, Responses

-----------------------------------------------------------------------------
(* What keeps each part of the invariant: a step that adds nothing to what  *)
(* the part is about.                                                       *)

(* No client waits for more, and none has a session it did not have. *)
ClientsQuiet ==
    \A c \in Client :
       /\ pending'[c] \in {pending[c], None} /\ reading'[c] \in {reading[c], None}
       /\ phase'[c] = "running" => phase[c] = "running"
       /\ channel'[c].cur \in {channel[c].cur, NoSession}
       /\ channel'[c].prev \in {channel[c].prev, NoSession}

ObjectsQuiet ==
    /\ owner' = owner
    /\ \A e \in Objects' :
         /\ e \in Objects
         /\ entry'[e].ch.cur = entry[e].ch.cur
         /\ entry'[e].ch.prev \in {entry[e].ch.prev, NoSession}

LEMMA OwnersQuiet ==
  ASSUME Inv, MessagesQuiet, ClientsQuiet, ObjectsQuiet
  PROVE  Owners'
<1> USE DEF Inv
<1>0. \A m \in Responses : m.ini \in Ini
  BY Fields DEF Responses, Shapes, WireShape, ServerShape, ServerTypeOK
<1>1. ASSUME NEW m \in Responses'
      PROVE  /\ owner'[m.sess] \in Allowed
             /\ \A c \in Client : m.ini = pending'[c] => owner'[m.sess] = c
  BY <1>0, Facts DEF MessagesQuiet, ClientsQuiet, ObjectsQuiet, Owners
<1>2. ASSUME NEW m \in Firsts', NEW c \in Client, m.ini = pending'[c]
      PROVE  m.key = c
  <2>1. m \in Firsts /\ m.ini \in Ini
    BY Fields DEF MessagesQuiet, Firsts, Shapes, WireShape
  <2> QED BY <1>2, <2>1, Facts DEF ClientsQuiet, Owners
<1>3. ASSUME NEW c \in Reading'
      PROVE  owner'[reading'[c].sess] = c /\ c \in Allowed
  BY DEF ClientsQuiet, ObjectsQuiet, Reading, Owners
<1>4. ASSUME NEW c \in Running',
             NEW s \in {channel'[c].cur, channel'[c].prev} \ {NoSession}
      PROVE  owner'[s] = c /\ c \in Allowed
  BY DEF ClientsQuiet, ObjectsQuiet, Running, Owners
<1>5. ASSUME NEW e \in Objects',
             NEW s \in {entry'[e].ch.cur, entry'[e].ch.prev} \ {NoSession}
      PROVE  owner'[s] \in Allowed
  BY DEF ObjectsQuiet, Owners
<1>6. \A m \in Frames' : owner'[m.sess] \in Allowed
  BY DEF MessagesQuiet, ObjectsQuiet, Owners
<1> QED BY <1>1, <1>2, <1>3, <1>4, <1>5, <1>6 DEF Owners

LEMMA UntouchedQuiet ==
  ASSUME Inv, Responses' \subseteq Responses, Frames' \subseteq Frames,
         ClientsQuiet, writes' = writes
  PROVE  Untouched'
<1> USE DEF Inv
<1>0. \A m \in Responses : m.ini \in Ini
  BY Fields DEF Responses, Shapes, WireShape, ServerShape, ServerTypeOK
<1>1. \A s : Awaited(s)' => Awaited(s)
  BY <1>0, Facts DEF Awaited, ClientsQuiet, Reading
<1>2. ASSUME NEW s \in Sess, Awaited(s)'
      PROVE  /\ \A c \in Client : s \notin {channel'[c].cur, channel'[c].prev}
             /\ \A m \in Frames' :
                  m.sess = s => m.dir = "down" /\ writes'[DatagramOf(m)] = 0
  BY <1>1, <1>2, Facts DEF Untouched, ClientsQuiet
<1> QED BY <1>2 DEF Untouched, DatagramOf

(* The snapshot of handleTUN has no more to serve. *)
RoundQuiet ==
    \A e \in round'.todo :
       e \in round.todo /\ round'.pkt = round.pkt /\ entry'[e].addr = entry[e].addr

LEMMA SealedQuiet ==
  ASSUME Inv, Frames' \subseteq Frames, sent' = sent, cNonce' = cNonce, sNonce' = sNonce,
         RoundQuiet
  PROVE  Sealed'
BY DEF Inv, Sealed, Nonce, RoundQuiet, DatagramOf

LEMMA HandedUpQuiet ==
  ASSUME Inv, Frames' \subseteq Frames, sent' = sent, writes' = writes,
         cSeen' = cSeen, sSeen' = sSeen, taken' \in {taken, NothingTaken}
  PROVE  HandedUp'
BY DEF Inv, HandedUp, Seen, DatagramOf

(* What a client leaves alone. *)
LEMMA ClientKeepsShape ==
  ASSUME Inv, ClientKeeps, net' \subseteq Message, sent' \subseteq Datagram,
         writes' \in [Datagram -> 0 .. 1], disturbed' = disturbed
  PROVE  WireShape' /\ ServerShape'
<1> USE DEF Inv, Shapes
<1>1. 0 \in Ages /\ gone' \in [Addr -> Ages]
  BY Facts DEF ClientKeeps, Used, WireShape, Ages
<1>2. WireShape'
  BY <1>1 DEF ClientKeeps, WireShape
<1>3. ServerShape'
  <2>1. UNCHANGED serverVars
    BY DEF ClientKeeps
  <2>2. ServerTypeOK'
    BY <2>1 DEF serverVars, ServerShape, ServerTypeOK
  <2>3. ObjectsInUse'
    BY <2>1 DEF serverVars, ServerShape, ObjectsInUse, Registered, Objects
  <2>4. RoundShape'
    BY <2>1 DEF serverVars, ServerShape, RoundShape
  <2> QED BY <2>2, <2>3, <2>4 DEF ServerShape
<1> QED BY <1>2, <1>3

LEMMA ClientKeepsQuiet ==
  ASSUME ClientKeeps
  PROVE  ObjectsQuiet /\ RoundQuiet /\ sNonce' = sNonce /\ sSeen' = sSeen
         /\ taken' = taken /\ reply' = reply /\ owner' = owner
BY DEF ClientKeeps, serverVars, ObjectsQuiet, RoundQuiet, Objects

(* A received datagram at most leaves. *)
LEMMA ReceiveShrinks ==
  ASSUME Inv, NEW m \in net, Receive(m)
  PROVE  net' \subseteq net /\ net' \subseteq Message
BY DEF Receive, Inv, Shapes, WireShape

(* The state of one client changes. *)
LEMMA OneClient ==
  ASSUME Inv, NEW c \in Client,
         phase' = [phase EXCEPT ![c] = phase'[c]],
         addr' = [addr EXCEPT ![c] = addr'[c]],
         channel' = [channel EXCEPT ![c] = channel'[c]],
         pending' = [pending EXCEPT ![c] = pending'[c]],
         reading' = [reading EXCEPT ![c] = reading'[c]],
         phase'[c] \in {"down", "handshake", "running"},
         addr'[c] \in Addr \cup {None}, pending'[c] \in Ini \cup {None},
         reading'[c] \in Reads \cup {None},
         channel'[c] \in Channels(Sess \cup {NoSession}),
         cNonce' \in [Sess -> 0 .. MaxCounter + 1], cSeen' \in [Sess -> SUBSET Counter],
         ClientShape(c)'
  PROVE  ClientsShape'
<1> USE DEF Inv, Shapes, ClientsShape
<1>1. ClientTypeOK'
  BY DEF ClientTypeOK
<1>2. ASSUME NEW d \in Client, d # c PROVE ClientShape(d)'
  <2>1. /\ phase'[d] = phase[d] /\ addr'[d] = addr[d] /\ channel'[d] = channel[d]
        /\ reading'[d] = reading[d]
    BY <1>2 DEF ClientTypeOK
  <2> QED BY <2>1 DEF ClientShape, KeepsNoOldKey
<1> QED BY <1>1, <1>2

(* Start: a new process with a fresh initiator. *)
LEMMA FreshIni ==
  ASSUME Inv, NEW i \in Free(Ini, IniInUse)
  PROVE  /\ i \in Ini
         /\ \A m \in Responses \cup Firsts : m.ini # i
         /\ \A c \in Client : pending[c] # i
BY DEF Free, IniInUse, Handshakes, Responses, Firsts

-----------------------------------------------------------------------------
(* The steps of a client.                                                   *)

LEMMA StartInv ==
  ASSUME Inv, NEW c \in Client, NEW a \in Addr, NEW i \in Free(Ini, IniInUse),
         Start(c, a, i), ClientKeeps
  PROVE  Inv'
<1> USE DEF Inv, Shapes
<1>f. i \in Ini /\ (\A m \in Responses \cup Firsts : m.ini # i) /\ \A d \in Client : pending[d] # i
  BY FreshIni
<1>k. /\ ObjectsQuiet /\ RoundQuiet /\ sNonce' = sNonce /\ sSeen' = sSeen
      /\ taken' = taken /\ reply' = reply /\ owner' = owner
  BY ClientKeepsQuiet
<1>1. /\ Msg1(a, i, c) \in Message /\ Msg1(a, i, c).type = "msg1"
      /\ Msg1(a, i, c).ini = i /\ Msg1(a, i, c).key = c
  BY <1>f DEF Msg1, Message
<1>2. /\ Frames' = Frames /\ Responses' = Responses
      /\ Firsts' = Firsts \cup {Msg1(a, i, c)}
  BY <1>1, <1>k DEF Start, Send, Frames, Responses, Firsts
<1>3. /\ phase'[c] = "handshake" /\ addr'[c] = a /\ pending'[c] = i
      /\ channel'[c] = channel[c] /\ reading'[c] = reading[c]
      /\ \A d \in Client \ {c} : pending'[d] = pending[d] /\ phase'[d] = phase[d]
  BY DEF Start, ClientsShape, ClientTypeOK
<1>4. WireShape' /\ ServerShape'
  BY <1>1, ClientKeepsShape DEF Start, Send, WireShape
<1>5. ClientsShape'
  <2>1. phase[c] = "down" /\ reading[c] = None /\ channel[c] = NewChannel(NoSession)
    BY DEF Start, ClientsShape, ClientShape
  <2>2. ClientShape(c)'
    BY <1>3, <2>1 DEF ClientShape, KeepsNoOldKey, NewChannel
  <2> QED BY <1>f, <1>3, <2>2, OneClient DEF Start, ClientsShape, ClientTypeOK
<1>6. Owners'
  <2>1. \A d \in Client : phase'[d] = "running" => phase[d] = "running"
    BY <1>3
  <2>2. \A m \in Responses', d \in Client :
           m.ini = pending'[d] => d # c /\ m.ini = pending[d]
    BY <1>f, <1>2, <1>3
  <2>3. \A m \in Firsts', d \in Client : m.ini = pending'[d] => m.key = d
    BY <1>f, <1>1, <1>2, <1>3 DEF Owners
  <2>4. channel' = channel /\ reading' = reading
    BY DEF Start
  <2> QED BY <1>2, <1>k, <2>1, <2>2, <2>3, <2>4
          DEF Owners, ObjectsQuiet, Running, Reading
<1>7. Untouched'
  <2>1. \A s : Awaited(s)' => Awaited(s)
    BY <1>f, <1>2, <1>3 DEF Awaited, Start, Reading
  <2> QED BY <1>2, <2>1 DEF Untouched, Start, DatagramOf
<1>8. Sealed'
  BY <1>2, <1>k, SealedQuiet DEF Start
<1>9. HandedUp'
  BY <1>2, <1>k, HandedUpQuiet DEF Start
<1> QED BY <1>4, <1>5, <1>6, <1>7, <1>8, <1>9

(* A step of a client that leaves every part but its own state quiet. *)
LEMMA QuietClient ==
  ASSUME Inv, ClientKeeps, ClientsShape', ClientsQuiet,
         NothingNew, net' \subseteq Message,
         UNCHANGED <<sent, writes, disturbed, cNonce, cSeen>>
  PROVE  Inv'
<1>1. MessagesQuiet
  BY NothingNewIsQuiet
<1>k. /\ ObjectsQuiet /\ RoundQuiet /\ sNonce' = sNonce /\ sSeen' = sSeen
      /\ taken' = taken
  BY ClientKeepsQuiet
<1>2. WireShape' /\ ServerShape'
  BY ClientKeepsShape DEF Inv, Shapes, WireShape
<1>3. Owners' /\ Untouched' /\ Sealed' /\ HandedUp'
  BY <1>1, <1>k, OwnersQuiet, UntouchedQuiet, SealedQuiet, HandedUpQuiet DEF MessagesQuiet
<1> QED BY <1>2, <1>3 DEF Inv, Shapes

(* Exit: the process forgets everything. *)
LEMMA ExitInv ==
  ASSUME Inv, NEW c \in Client, Exit(c), ClientKeeps, net' \subseteq net,
         UNCHANGED <<sent, writes, disturbed>>
  PROVE  Inv'
<1> USE DEF Inv, Shapes
<1>1. /\ phase'[c] = "down" /\ addr'[c] = None /\ channel'[c] = NewChannel(NoSession)
      /\ pending'[c] = None /\ reading'[c] = None
      /\ \A d \in Client \ {c} :
           /\ phase'[d] = phase[d] /\ channel'[d] = channel[d]
           /\ pending'[d] = pending[d] /\ reading'[d] = reading[d]
  BY DEF Exit, ClientsShape, ClientTypeOK
<1>2. NewChannel(NoSession) \in Channels(Sess \cup {NoSession})
  BY Facts DEF NewChannel, Channels
<1>3. ClientShape(c)'
  BY <1>1 DEF ClientShape, KeepsNoOldKey, NewChannel
<1>4. ClientsShape'
  BY <1>1, <1>2, <1>3, OneClient DEF Exit, ClientsShape, ClientTypeOK
<1>5. ClientsQuiet
  BY <1>1 DEF ClientsQuiet, NewChannel
<1>6. NothingNew /\ net' \subseteq Message
  BY ClientKeepsQuiet DEF NothingNew, WireShape
<1> QED BY <1>4, <1>5, <1>6, QuietClient DEF Exit

LEMMA StopInv ==
  ASSUME Inv, NEW c \in Client, Stop(c), ClientKeeps
  PROVE  Inv'
BY ExitInv DEF Stop

LEMMA FailHandshakeInv ==
  ASSUME Inv, NEW c \in Client, NEW m \in net, FailHandshake(c, m), ClientKeeps
  PROVE  Inv'
BY ExitInv, ReceiveShrinks DEF FailHandshake

(* A step that changes no client, but for pings and the network. *)
LEMMA SameClients ==
  ASSUME Inv, UNCHANGED clientVars
  PROVE  ClientsShape' /\ ClientsQuiet
<1>1. ClientsQuiet
  BY DEF clientVars, ClientsQuiet
<1>2. ClientsShape'
  BY DEF Inv, Shapes, clientVars, ClientsShape, ClientTypeOK, ClientShape, KeepsNoOldKey
<1> QED BY <1>1, <1>2

LEMMA IgnoreResponseInv ==
  ASSUME Inv, NEW c \in Client, NEW m \in net, IgnoreResponse(c, m), ClientKeeps
  PROVE  Inv'
<1>1. net' \subseteq net /\ net' \subseteq Message
  BY ReceiveShrinks DEF IgnoreResponse
<1>2. NothingNew
  BY <1>1, ClientKeepsQuiet DEF NothingNew
<1> QED BY <1>1, <1>2, SameClients, QuietClient DEF IgnoreResponse, clientVars

LEMMA KeepAliveInv ==
  ASSUME Inv, NEW c \in Client, KeepAlive(c), ClientKeeps
  PROVE  Inv'
<1>1. Ping(addr[c]) \in Message /\ Ping(addr[c]).type = "ping"
  BY DEF KeepAlive, Ping, Message, Inv, Shapes, ClientsShape, ClientShape
<1>2. NothingNew /\ net' \subseteq Message
  BY <1>1, ClientKeepsQuiet DEF KeepAlive, Send, NothingNew, Inv, Shapes, WireShape
<1> QED BY <1>2, SameClients, QuietClient DEF KeepAlive, clientVars

LEMMA StartRehandshakeInv ==
  ASSUME Inv, NEW c \in Client, NEW i \in Free(Ini, IniInUse),
         StartRehandshake(c, i), ClientKeeps
  PROVE  Inv'
<1> USE DEF Inv, Shapes
<1> DEFINE m1 == Msg1(addr[c], i, c)
<1>f. i \in Ini /\ (\A m \in Responses \cup Firsts : m.ini # i) /\ \A d \in Client : pending[d] # i
  BY FreshIni
<1>k. /\ ObjectsQuiet /\ RoundQuiet /\ sNonce' = sNonce /\ sSeen' = sSeen
      /\ taken' = taken /\ reply' = reply /\ owner' = owner
  BY ClientKeepsQuiet
<1>a. addr[c] \in Addr
  BY DEF StartRehandshake, ClientsShape, ClientShape
<1>1. m1 \in Message /\ m1.type = "msg1" /\ m1.ini = i /\ m1.key = c
  BY <1>f, <1>a DEF Msg1, Message
<1>2. /\ Frames' = Frames /\ Responses' = Responses
      /\ Firsts' = Firsts \cup {m1}
  BY <1>1, <1>k DEF StartRehandshake, Send, Frames, Responses, Firsts
<1>3. /\ pending'[c] = i /\ UNCHANGED <<phase, addr, channel, reading>>
      /\ \A d \in Client \ {c} : pending'[d] = pending[d]
  BY DEF StartRehandshake, ClientsShape, ClientTypeOK
<1>4. WireShape' /\ ServerShape'
  BY <1>1, ClientKeepsShape DEF StartRehandshake, Send, WireShape
<1>5. ClientsShape'
  <2>2. ClientShape(c)'
    BY <1>3 DEF ClientsShape, ClientShape, KeepsNoOldKey
  <2> QED BY <1>f, <1>3, <2>2, OneClient DEF StartRehandshake, ClientsShape, ClientTypeOK
<1>6. Owners'
  <2>2. \A m \in Responses', d \in Client :
           m.ini = pending'[d] => d # c /\ m.ini = pending[d]
    BY <1>f, <1>2, <1>3
  <2>3. \A m \in Firsts', d \in Client : m.ini = pending'[d] => m.key = d
    BY <1>f, <1>1, <1>2, <1>3 DEF Owners
  <2>4. Running' = Running /\ Reading' = Reading /\ channel' = channel /\ reading' = reading
    BY <1>3 DEF Running, Reading
  <2> QED BY <1>2, <1>k, <2>2, <2>3, <2>4 DEF Owners, ObjectsQuiet
<1>7. Untouched'
  <2>1. \A s : Awaited(s)' => Awaited(s)
    BY <1>f, <1>2, <1>3 DEF Awaited, Reading
  <2> QED BY <1>2, <1>3, <2>1 DEF Untouched, StartRehandshake, DatagramOf
<1>8. Sealed'
  BY <1>2, <1>k, SealedQuiet DEF StartRehandshake
<1>9. HandedUp'
  BY <1>2, <1>k, HandedUpQuiet DEF StartRehandshake
<1> QED BY <1>4, <1>5, <1>6, <1>7, <1>8, <1>9

(* A response a client is about to read completes a session of its own that
   nobody has used on its side yet. *)
LEMMA AnswerIsOurs ==
  ASSUME Inv, NEW c \in Client, NEW m \in net, Answers(c, m)
  PROVE  /\ m \in Responses /\ m.ini \in Ini /\ m.sess \in Sess /\ m.addr \in Addr
         /\ owner[m.sess] = c /\ c \in Allowed /\ Awaited(m.sess)
BY Fields DEF Inv, Shapes, WireShape, Answers, Responses, Owners, Awaited

LEMMA ReadResponseInv ==
  ASSUME Inv, NEW c \in Client, NEW m \in net, ReadResponse(c, m), ClientKeeps
  PROVE  Inv'
<1> USE DEF Inv, Shapes
<1>k. /\ ObjectsQuiet /\ RoundQuiet /\ sNonce' = sNonce /\ sSeen' = sSeen
      /\ taken' = taken /\ reply' = reply /\ owner' = owner
  BY ClientKeepsQuiet
<1>m. /\ m \in Responses /\ m.ini \in Ini /\ m.sess \in Sess
      /\ owner[m.sess] = c /\ c \in Allowed /\ Awaited(m.sess)
  BY AnswerIsOurs DEF ReadResponse
<1>1. net' \subseteq net /\ net' \subseteq Message
  BY ReceiveShrinks DEF ReadResponse
<1>2. /\ Frames' \subseteq Frames /\ Responses' \subseteq Responses
      /\ Firsts' \subseteq Firsts
  BY <1>1, <1>k DEF Frames, Responses, Firsts
<1>3. /\ reading'[c] = [ini |-> m.ini, sess |-> m.sess]
      /\ UNCHANGED <<phase, addr, channel, pending>> /\ phase[c] = "running"
      /\ \A d \in Client \ {c} : reading'[d] = reading[d]
  BY DEF ReadResponse, Listening, ClientsShape, ClientTypeOK
<1>4. WireShape' /\ ServerShape'
  BY <1>1, ClientKeepsShape DEF ReadResponse, WireShape
<1>5. ClientsShape'
  <2>1. reading'[c] \in Reads
    BY <1>3, <1>m DEF Reads
  <2>2. ClientShape(c)'
    BY <1>3 DEF ClientsShape, ClientShape, KeepsNoOldKey
  <2> QED BY <1>3, <2>1, <2>2, OneClient DEF ReadResponse, ClientsShape, ClientTypeOK
<1>6. Owners'
  <2>1. \A d \in Reading' : owner'[reading'[d].sess] = d /\ d \in Allowed
    BY <1>3, <1>m, <1>k DEF Reading, Owners
  <2> QED BY <1>2, <1>3, <1>k, <2>1 DEF Owners, ObjectsQuiet, Running
<1>7. Untouched'
  <2>1. \A s : Awaited(s)' => Awaited(s)
    BY <1>m, <1>2, <1>3 DEF Awaited, Reading
  <2> QED BY <1>2, <1>3, <2>1 DEF Untouched, ReadResponse, DatagramOf
<1>8. Sealed'
  BY <1>2, <1>k, SealedQuiet DEF ReadResponse
<1>9. HandedUp'
  BY <1>2, <1>k, HandedUpQuiet DEF ReadResponse
<1> QED BY <1>4, <1>5, <1>6, <1>7, <1>8, <1>9

(* A client goes over to a session of its own that is new to it; what it
   awaited before is done with. *)
LEMMA TakesSession ==
  ASSUME Inv, NEW c \in Client, NEW s \in Sess, ClientKeeps, NewSession(s),
         Awaited(s), owner[s] = c, c \in Allowed,
         pending'[c] = None, reading'[c] = None,
         channel'[c].cur = s, channel'[c].prev \in {channel[c].cur, NoSession},
         phase'[c] = "running",
         \A d \in Client \ {c} : /\ pending'[d] = pending[d] /\ reading'[d] = reading[d]
                                 /\ channel'[d] = channel[d] /\ phase'[d] = phase[d],
         net' \subseteq net, net' \subseteq Message, ClientsShape',
         phase[c] # "running" => channel'[c].prev = NoSession,
         UNCHANGED <<sent, writes, disturbed>>
  PROVE  Inv'
<1> USE DEF Inv, Shapes
<1>k. /\ ObjectsQuiet /\ RoundQuiet /\ sNonce' = sNonce /\ sSeen' = sSeen
      /\ taken' = taken /\ reply' = reply /\ owner' = owner
  BY ClientKeepsQuiet
<1>2. /\ Frames' \subseteq Frames /\ Responses' \subseteq Responses
      /\ Firsts' \subseteq Firsts
  BY <1>k DEF Frames, Responses, Firsts
<1>t. /\ \A m \in Responses : m.ini # None
      /\ \A m \in Firsts : m.ini # None
  BY Fields, Facts DEF Responses, Firsts, WireShape, ServerShape, ServerTypeOK
<1>n. /\ \A m \in Frames : m.sess \in Sess /\ m.dir \in {"up", "down"}
      /\ \A q \in Sess \ {s} : cNonce'[q] = cNonce[q] /\ cSeen'[q] = cSeen[q]
      /\ cNonce'[s] = 0 /\ cSeen'[s] = {}
  BY Fields DEF Frames, WireShape, NewSession, ClientsShape, ClientTypeOK
<1>u. /\ \A m \in Frames : m.sess = s => m.dir = "down" /\ writes[DatagramOf(m)] = 0
  BY DEF Untouched
<1>4. WireShape' /\ ServerShape'
  BY ClientKeepsShape DEF WireShape
<1>6. Owners'
  <2>1. \A m \in Responses', d \in Client : m.ini = pending'[d] => m.ini = pending[d]
    BY <1>2, <1>t
  <2>2. \A m \in Firsts', d \in Client : m.ini = pending'[d] => m.key = d
    BY <1>2, <1>t DEF Owners
  <2>3. \A d \in Reading' : owner'[reading'[d].sess] = d /\ d \in Allowed
    BY <1>k DEF Reading, Owners
  <2>4. ASSUME NEW d \in Running',
               NEW q \in {channel'[d].cur, channel'[d].prev} \ {NoSession}
        PROVE  owner'[q] = d /\ d \in Allowed
    BY <1>k DEF Running, Owners
  <2> QED BY <1>2, <1>k, <2>1, <2>2, <2>3, <2>4 DEF Owners, ObjectsQuiet
<1>7. Untouched'
  <2>1. ASSUME NEW q \in Sess, Awaited(q)' PROVE Awaited(q) /\ q # s
    <3>1. CASE \E d \in Client, m \in Responses' : m.ini = pending'[d] /\ m.sess = q
      <4>1. PICK d \in Client, m \in Responses : m.ini = pending'[d] /\ m.sess = q
        BY <1>2, <3>1
      <4>2. d # c /\ m.ini = pending[d]
        BY <1>t, <4>1
      <4>3. owner[q] = d
        BY <4>1, <4>2 DEF Owners
      <4> QED BY <4>1, <4>2, <4>3 DEF Awaited
    <3>2. CASE \E d \in Reading' : reading'[d].sess = q
      <4>1. PICK d \in Reading' : reading'[d].sess = q
        BY <3>2
      <4>2. d # c /\ d \in Reading /\ reading[d].sess = q
        BY <4>1 DEF Reading
      <4>3. owner[q] = d
        BY <4>2 DEF Owners
      <4> QED BY <4>2, <4>3 DEF Awaited
    <3> QED BY <2>1, <3>1, <3>2 DEF Awaited
  <2>2. ASSUME NEW q \in Sess, Awaited(q)', NEW d \in Client
        PROVE  q \notin {channel'[d].cur, channel'[d].prev}
    BY <2>1, <2>2, Facts DEF Untouched
  <2> QED BY <1>2, <2>1, <2>2 DEF Untouched, DatagramOf
<1>8. Sealed'
  <2>1. \A m \in Frames' : m.seq < Nonce(m)'
    BY <1>2, <1>k, <1>n, <1>u DEF Sealed, Nonce
  <2> QED BY <1>2, <1>k, <2>1 DEF Sealed, RoundQuiet, DatagramOf
<1>9. HandedUp'
  <2>1. \A m \in Frames' : writes'[DatagramOf(m)] # 0 => m.seq \in Seen(m)'
    BY <1>2, <1>k, <1>n, <1>u DEF HandedUp, Seen
  <2>2. \A m \in Frames : m.dir = "up" => Seen(m)' = Seen(m)
    BY <1>k DEF Seen
  <2> QED BY <1>2, <1>k, <2>1, <2>2 DEF HandedUp, DatagramOf
<1> QED BY <1>4, <1>6, <1>7, <1>8, <1>9

LEMMA NewSessionTypes ==
  ASSUME Inv, NEW s \in Sess, NewSession(s)
  PROVE  cNonce' \in [Sess -> 0 .. MaxCounter + 1] /\ cSeen' \in [Sess -> SUBSET Counter]
<1>1. 0 \in 0 .. MaxCounter + 1
  BY Facts
<1> QED BY <1>1 DEF NewSession, Inv, Shapes, ClientsShape, ClientTypeOK

LEMMA FinishHandshakeInv ==
  ASSUME Inv, NEW c \in Client, NEW m \in net, FinishHandshake(c, m), ClientKeeps
  PROVE  Inv'
<1> USE DEF Inv, Shapes
<1>m. /\ m.sess \in Sess /\ owner[m.sess] = c /\ c \in Allowed /\ Awaited(m.sess)
  BY AnswerIsOurs DEF FinishHandshake
<1>1. net' \subseteq net /\ net' \subseteq Message
  BY ReceiveShrinks DEF FinishHandshake
<1>2. /\ phase'[c] = "running" /\ channel'[c] = NewChannel(m.sess) /\ pending'[c] = None
      /\ addr'[c] = addr[c] /\ reading'[c] = reading[c]
      /\ phase[c] = "handshake" /\ reading[c] = None /\ addr[c] \in Addr
      /\ \A d \in Client \ {c} : /\ pending'[d] = pending[d] /\ reading'[d] = reading[d]
                                 /\ channel'[d] = channel[d] /\ phase'[d] = phase[d]
  BY DEF FinishHandshake, ClientsShape, ClientTypeOK, ClientShape
<1>3. channel'[c].cur = m.sess /\ channel'[c].prev = NoSession
  BY <1>2 DEF NewChannel
<1>4. ClientsShape'
  <2>1. NewChannel(m.sess) \in Channels(Sess \cup {NoSession})
    BY <1>m, Facts DEF NewChannel, Channels
  <2>2. ClientShape(c)'
    BY <1>2, <1>3, <1>m DEF ClientShape, KeepsNoOldKey
  <2>3. /\ cNonce' \in [Sess -> 0 .. MaxCounter + 1]
        /\ cSeen' \in [Sess -> SUBSET Counter]
    BY <1>m, NewSessionTypes DEF FinishHandshake
  <2> QED BY <1>2, <2>1, <2>2, <2>3, OneClient DEF FinishHandshake, ClientsShape, ClientTypeOK
<1> QED BY <1>m, <1>1, <1>2, <1>3, <1>4, TakesSession DEF FinishHandshake

LEMMA CompleteRehandshakeInv ==
  ASSUME Inv, NEW c \in Client, CompleteRehandshake(c), ClientKeeps
  PROVE  Inv'
<1> USE DEF Inv, Shapes
<1> DEFINE s == reading[c].sess
<1>m. s \in Sess /\ owner[s] = c /\ c \in Allowed /\ Awaited(s)
  BY DEF CompleteRehandshake, Reading, Owners, Awaited, ClientsShape, ClientTypeOK, Reads
<1>2. /\ phase'[c] = "running" /\ channel'[c] = Rotated(channel[c], s) /\ pending'[c] = None
      /\ addr'[c] = addr[c] /\ reading'[c] = None
      /\ phase[c] = "running" /\ addr[c] \in Addr /\ channel[c].cur \in Sess
      /\ \A d \in Client \ {c} : /\ pending'[d] = pending[d] /\ reading'[d] = reading[d]
                                 /\ channel'[d] = channel[d] /\ phase'[d] = phase[d]
  BY DEF CompleteRehandshake, ClientsShape, ClientTypeOK, ClientShape
<1>3. channel'[c].cur = s /\ channel'[c].prev = channel[c].cur /\ channel'[c].left = Grace
  BY <1>2 DEF Rotated
<1>4. ClientsShape'
  <2>1. Rotated(channel[c], s) \in Channels(Sess \cup {NoSession})
    BY <1>m, <1>2, Facts DEF Rotated, Channels
  <2>2. ClientShape(c)'
    BY <1>2, <1>3, <1>m, Facts DEF ClientShape, KeepsNoOldKey
  <2>3. /\ cNonce' \in [Sess -> 0 .. MaxCounter + 1]
        /\ cSeen' \in [Sess -> SUBSET Counter]
    BY <1>m, NewSessionTypes DEF CompleteRehandshake
  <2> QED BY <1>2, <2>1, <2>2, <2>3, OneClient
          DEF CompleteRehandshake, ClientsShape, ClientTypeOK
<1>5. net' \subseteq net /\ net' \subseteq Message
  BY DEF CompleteRehandshake, WireShape
<1> QED BY <1>m, <1>2, <1>3, <1>4, <1>5, TakesSession DEF CompleteRehandshake

(* The datagram of a frame can be told from every frame sealed before. *)
LEMMA SendUpInv ==
  ASSUME Inv, NEW c \in Client, NEW p \in UpPacket, SendUp(c, p), ClientKeeps
  PROVE  Inv'
<1> USE DEF Inv, Shapes
<1> DEFINE s == channel[c].cur
           f == Data("up", addr[c], s, cNonce[s], p)
           d == [dir |-> "up", addr |-> addr[c], pkt |-> p]
<1>k. /\ ObjectsQuiet /\ RoundQuiet /\ sNonce' = sNonce /\ sSeen' = sSeen
      /\ taken' = taken /\ reply' = reply /\ owner' = owner /\ round' = round
      /\ entry' = entry
  <2>1. round' = round /\ entry' = entry
    BY DEF ClientKeeps, serverVars
  <2> QED BY <2>1, ClientKeepsQuiet
<1>a. addr[c] \in Addr /\ s \in Sess /\ c \in Running /\ cNonce[s] \in Counter
  BY Facts DEF SendUp, ClientsShape, ClientShape, ClientTypeOK, Running, Counter
<1>1. /\ f \in Message /\ f.type = "data" /\ f.dir = "up" /\ f.sess = s
      /\ f.seq = cNonce[s] /\ DatagramOf(f) = d /\ d \in Datagram /\ d \notin sent
  BY <1>a DEF Data, Message, DatagramOf, Datagram, Packet, SendUp, Unread
<1>2. /\ Frames' = Frames \cup {f} /\ Responses' = Responses
      /\ Firsts' = Firsts
  BY <1>1, <1>k DEF SendUp, Send, Frames, Responses, Firsts
<1>3. UNCHANGED <<phase, addr, channel, pending, reading, cSeen, writes>>
  BY DEF SendUp
<1>n. /\ sent' = sent \cup {d} /\ cNonce'[s] = cNonce[s] + 1
      /\ \A q \in Sess \ {s} : cNonce'[q] = cNonce[q]
      /\ cNonce' \in [Sess -> 0 .. MaxCounter + 1]
  BY <1>a, Facts DEF SendUp, ClientsShape, ClientTypeOK, Counter
<1>w. \A m \in Frames : /\ m.sess \in Sess /\ m.dir \in {"up", "down"}
                        /\ m.seq \in Counter /\ DatagramOf(m) # d
  BY Fields, <1>1 DEF Frames, WireShape, Sealed
<1>4. WireShape' /\ ServerShape'
  BY <1>1, ClientKeepsShape DEF SendUp, Send, WireShape
<1>5. ClientsShape'
  BY <1>n, <1>3 DEF ClientsShape, ClientTypeOK, ClientShape, KeepsNoOldKey
<1>6. Owners'
  <2>1. owner[s] \in Allowed
    BY <1>a, Facts DEF Owners
  <2>4. Running' = Running /\ Reading' = Reading /\ channel' = channel
        /\ reading' = reading /\ pending' = pending
    BY <1>3 DEF Running, Reading
  <2> QED BY <1>1, <1>2, <1>k, <2>1, <2>4 DEF Owners, ObjectsQuiet
<1>7. Untouched'
  <2>1. \A q : Awaited(q)' <=> Awaited(q)
    BY <1>2, <1>3 DEF Awaited, Reading
  <2>2. ~Awaited(s)
    BY <1>a DEF Untouched
  <2>3. \A m : DatagramOf(m)' = DatagramOf(m)
    BY DEF DatagramOf
  <2> QED BY <1>1, <1>2, <1>3, <2>1, <2>2, <2>3 DEF Untouched
<1>8. Sealed'
  <2>1. \A m \in Frames' : DatagramOf(m) \in sent' /\ m.seq < Nonce(m)'
    <3>0. /\ \A m : m.dir = "up" => Nonce(m)' = cNonce'[m.sess]
          /\ \A m : m.dir = "down" => Nonce(m)' = Nonce(m)
      BY <1>k DEF Nonce
    <3>1. ASSUME NEW m \in Frames', m = f PROVE m.seq < Nonce(m)'
      <4>1. m.dir = "up" /\ m.sess = s /\ m.seq = cNonce[s]
        BY <1>1, <3>1
      <4> QED BY <4>1, <1>a, <1>n, <3>0 DEF Counter
    <3>2. ASSUME NEW m \in Frames PROVE m.seq < Nonce(m)'
      <4>1. m.seq < Nonce(m)
        BY DEF Sealed
      <4>2. CASE m.dir = "down"
        BY <4>1, <4>2, <3>0
      <4>3. CASE m.dir = "up"
        <5>1. m.seq < cNonce[m.sess] /\ m.seq \in Nat
          BY <4>1, <4>3, <1>w DEF Nonce, Counter
        <5>2. m.seq < cNonce'[m.sess]
          BY <5>1, <1>a, <1>n, <1>w DEF Counter
        <5> QED BY <5>2, <4>3, <3>0
      <4> QED BY <4>2, <4>3, <1>w
    <3> QED BY <1>1, <1>2, <1>n, <3>1, <3>2 DEF Sealed
  <2>2. \A m, n \in Frames' : DatagramOf(m) = DatagramOf(n) => m = n
    BY <1>1, <1>2, <1>w DEF Sealed
  <2>3. \A m \in Frames : m.dir = "up" /\ m.sess = s => m.seq # f.seq
    BY <1>a, <1>1, <1>w DEF Sealed, Nonce, Counter
  <2>4. \A m, n \in Frames' :
           m.dir = n.dir /\ m.sess = n.sess /\ m.seq = n.seq => m = n
    BY <1>1, <1>2, <2>3 DEF Sealed
  <2>5. ASSUME NEW e \in round'.todo
        PROVE  [dir |-> "down", addr |-> entry'[e].addr, pkt |-> round'.pkt] \notin sent'
    BY <1>k, <1>n DEF Sealed
  <2> QED BY <2>1, <2>2, <2>4, <2>5 DEF Sealed, DatagramOf
<1>9. HandedUp'
  <2>0. writes[d] = 0
    BY <1>1 DEF HandedUp
  <2>1. \A m \in Frames' : writes'[DatagramOf(m)] # 0 => m.seq \in Seen(m)'
    BY <1>1, <1>2, <1>3, <1>k, <2>0 DEF HandedUp, Seen
  <2>2. \A m \in Frames : Seen(m)' = Seen(m)
    BY <1>3, <1>k DEF Seen
  <2> QED BY <1>1, <1>2, <1>3, <1>k, <1>n, <2>1, <2>2 DEF HandedUp, DatagramOf
<1> QED BY <1>4, <1>5, <1>6, <1>7, <1>8, <1>9

(* The frames a client accepts are of a session it holds, sealed for it by the
   server, and none was handed up before. *)
LEMMA ReceiveDataInv ==
  ASSUME Inv, NEW c \in Client, NEW m \in ToClient(addr[c]), ReceiveData(c, m),
         ClientKeeps
  PROVE  Inv'
<1> USE DEF Inv, Shapes
<1>k. /\ ObjectsQuiet /\ RoundQuiet /\ sNonce' = sNonce /\ sSeen' = sSeen
      /\ taken' = taken /\ reply' = reply /\ owner' = owner
  BY ClientKeepsQuiet
<1>m. m \in net /\ m.type = "data" /\ m.dir # "up" /\ phase[c] = "running"
  BY DEF ToClient, ToServer, ReceiveData, Listening
<1>f. /\ m \in Frames /\ m.dir = "down" /\ m.sess \in Sess /\ m.seq \in Counter
      /\ DatagramOf(m) \in Datagram /\ DatagramOf(m).dir = "down"
  BY <1>m, Fields DEF Frames, WireShape, DatagramOf
<1>1. net' \subseteq net /\ net' \subseteq Message
  BY <1>m, ReceiveShrinks DEF ReceiveData
<1>2. /\ Frames' \subseteq Frames /\ Responses' \subseteq Responses
      /\ Firsts' \subseteq Firsts
  BY <1>1, <1>k DEF Frames, Responses, Firsts
<1>3. UNCHANGED <<phase, addr, channel, pending, reading, cNonce, sent, disturbed>>
  BY DEF ReceiveData
<1>q. ClientsQuiet
  BY <1>3 DEF ClientsQuiet
<1>6. Owners'
  BY <1>2, <1>k, <1>q, OwnersQuiet DEF MessagesQuiet
<1>8. Sealed'
  BY <1>2, <1>3, <1>k, SealedQuiet
<1>a. CASE ~Accepts(channel[c], cSeen, m)
  <2>1. UNCHANGED <<cSeen, writes>>
    BY <1>a DEF ReceiveData
  <2>2. ClientsShape'
    BY <1>3, <2>1 DEF ClientsShape, ClientTypeOK, ClientShape, KeepsNoOldKey
  <2>3. WireShape' /\ ServerShape'
    BY <1>1, <1>3, <2>1, ClientKeepsShape DEF WireShape
  <2>4. Untouched' /\ HandedUp'
    BY <1>2, <1>3, <1>k, <1>q, <2>1, UntouchedQuiet, HandedUpQuiet
  <2> QED BY <1>6, <1>8, <2>2, <2>3, <2>4
<1>b. CASE Accepts(channel[c], cSeen, m)
  <2> DEFINE d == DatagramOf(m)
  <2>1. /\ cSeen' = [cSeen EXCEPT ![m.sess] = @ \cup {m.seq}]
        /\ writes' = [writes EXCEPT ![d] = @ + 1]
    BY <1>b DEF ReceiveData, TunWrite
  <2>2. /\ m.sess \in {channel[c].cur, channel[c].prev}
        /\ m.seq \notin cSeen[m.sess]
    BY <1>b DEF Accepts, Opens, PrevValid, Fresh
  <2>3. writes[d] = 0 /\ d \in sent
    <3>1. Seen(m) = cSeen[m.sess]
      BY <1>f DEF Seen
    <3> QED BY <1>f, <2>2, <3>1 DEF HandedUp, Sealed
  <2>4. /\ writes' \in [Datagram -> 0 .. 1]
        /\ writes'[d] = 1 /\ \A e \in Datagram \ {d} : writes'[e] = writes[e]
    BY <1>f, <2>1, <2>3 DEF WireShape
  <2>5. /\ cSeen' \in [Sess -> SUBSET Counter]
        /\ \A s \in Sess : cSeen[s] \subseteq cSeen'[s]
        /\ m.seq \in cSeen'[m.sess]
    BY <1>f, <2>1 DEF ClientsShape, ClientTypeOK
  <2>6. ClientsShape'
    BY <1>3, <2>5 DEF ClientsShape, ClientTypeOK, ClientShape, KeepsNoOldKey
  <2>7. WireShape' /\ ServerShape'
    BY <1>1, <1>3, <2>4, ClientKeepsShape DEF WireShape
  <2>8. \A n \in Frames : /\ n.sess \in Sess /\ n.dir \in {"up", "down"}
                          /\ DatagramOf(n) \in Datagram
                          /\ DatagramOf(n) = d => n = m
    BY <1>f, Fields DEF Frames, WireShape, Sealed
  <2>9. Untouched'
    <3>1. \A s : Awaited(s)' => Awaited(s)
      BY <1>2, <1>3 DEF Awaited, Reading
    <3>2. ~Awaited(m.sess)
      BY <1>f, <2>2 DEF Untouched
    <3>3. ASSUME NEW s \in Sess, Awaited(s)', NEW n \in Frames', n.sess = s
          PROVE  n.dir = "down" /\ writes'[DatagramOf(n)] = 0
      <4>1. n # m /\ n \in Frames /\ Awaited(s)
        BY <1>2, <3>1, <3>2, <3>3
      <4>2. DatagramOf(n) # d /\ DatagramOf(n) \in Datagram
        BY <4>1, <2>8
      <4> QED BY <3>3, <4>1, <4>2, <2>4 DEF Untouched
    <3> QED BY <1>3, <3>1, <3>3 DEF Untouched, DatagramOf
  <2>10. HandedUp'
    <3>1. \A e \in Datagram : writes'[e] # 0 => e \in sent'
      BY <1>3, <2>3, <2>4 DEF HandedUp
    <3>2. \A n \in Frames : Seen(n) \subseteq Seen(n)'
      BY <1>k, <2>5, <2>8 DEF Seen
    <3>3. m.seq \in Seen(m)'
      <4>1. m' = m
        OBVIOUS
      <4> QED BY <1>f, <2>5, <4>1 DEF Seen
    <3>4. ASSUME NEW n \in Frames', writes'[DatagramOf(n)] # 0 PROVE n.seq \in Seen(n)'
      <4>1. CASE n = m
        BY <3>3, <4>1
      <4>2. CASE n # m
        BY <1>2, <2>4, <2>8, <3>2, <3>4, <4>2 DEF HandedUp
      <4> QED BY <4>1, <4>2
    <3>5. ASSUME taken' # NothingTaken
          PROVE  /\ taken'.pkt \in sent' /\ taken'.pkt.dir = "up" /\ writes'[taken'.pkt] = 0
                 /\ \A n \in Frames' : DatagramOf(n) = taken'.pkt => n.seq \in Seen(n)'
      <4>1. taken.pkt # d /\ taken.pkt \in Datagram
        BY <1>f, <1>k, <3>5 DEF HandedUp, ServerShape, ServerTypeOK
      <4> QED BY <1>2, <1>3, <1>k, <2>4, <3>2, <3>5, <4>1 DEF HandedUp
    <3> QED BY <3>1, <3>4, <3>5 DEF HandedUp, DatagramOf
  <2> QED BY <1>6, <1>8, <2>6, <2>7, <2>9, <2>10
<1> QED BY <1>a, <1>b

LEMMA ClientStepInv ==
  ASSUME Inv, NEW c \in Client, ClientStep(c)
  PROVE  Inv'
<1>0. ToClient(addr[c]) \subseteq net
  BY DEF ToClient
<1>1. CASE MainStep(c)
  BY <1>1, StartInv, StopInv DEF MainStep
<1>2. CASE RekeyStep(c)
  BY <1>2, StartRehandshakeInv DEF RekeyStep
<1>3. CASE KeepAliveStep(c)
  BY <1>3, KeepAliveInv DEF KeepAliveStep
<1>4. CASE ClientTunStep(c)
  BY <1>4, SendUpInv DEF ClientTunStep
<1>5. CASE ClientUdpStep(c)
  BY <1>0, <1>5, CompleteRehandshakeInv, FinishHandshakeInv, FailHandshakeInv,
     ReadResponseInv, IgnoreResponseInv, ReceiveDataInv
     DEF ClientUdpStep, ClientReceives
<1> QED BY <1>1, <1>2, <1>3, <1>4, <1>5 DEF ClientStep

-----------------------------------------------------------------------------
(* The steps of the server.                                                 *)

(* A session that is not in use is named nowhere. *)
LEMMA FreshSession ==
  ASSUME Inv, NEW s \in Free(Sess, SessInUse)
  PROVE  /\ s \in Sess
         /\ \A m \in Responses \cup Frames : m.sess # s
         /\ \A e \in Objects : s \notin {entry[e].ch.cur, entry[e].ch.prev}
         /\ \A c \in Client : s \notin {channel[c].cur, channel[c].prev}
         /\ \A c \in Reading : reading[c].sess # s
<1> USE DEF Inv, Shapes
<1>0. s \in Sess /\ s \notin SessInUse /\ s # NoSession
  BY Facts DEF Free
<1>1. CASE ~Recycle
  <2>1. owner[s] = None
    BY <1>0, <1>1 DEF SessInUse
  <2>2. \A c \in Client : c # None
    BY Facts
  <2>3. \A k \in Allowed : k # None
    BY Facts
  <2>4. \A c \in Client : s \notin {channel[c].cur, channel[c].prev}
    <3>1. ASSUME NEW c \in Client, phase[c] = "running"
          PROVE  s \notin {channel[c].cur, channel[c].prev}
      BY <1>0, <2>1, <2>2, <3>1 DEF Owners, Running
    <3>2. ASSUME NEW c \in Client, phase[c] # "running"
          PROVE  s \notin {channel[c].cur, channel[c].prev}
      BY <1>0, <3>2 DEF ClientsShape, ClientShape, NewChannel
    <3> QED BY <3>1, <3>2
  <2> QED BY <1>0, <2>1, <2>2, <2>3, <2>4 DEF Owners, Reading
<1>2. CASE Recycle
  <2>1. \A m \in Responses \cup Frames : m.sess # s
    BY <1>0, <1>2 DEF SessInUse, Responses, Frames
  <2>2. \A ch : KeepsNoOldKey(ch) /\ s \in {ch.cur, ch.prev} => s \in Held(ch)
    BY <1>0 DEF KeepsNoOldKey, Held
  <2>3. ASSUME NEW e \in Objects PROVE s \notin {entry[e].ch.cur, entry[e].ch.prev}
    <3>1. s \notin Held(entry[e].ch)
      BY <1>0, <1>2 DEF SessInUse, Objects
    <3> QED BY <3>1, <2>2 DEF ServerShape, ObjectsInUse
  <2>4. ASSUME NEW c \in Client PROVE s \notin {channel[c].cur, channel[c].prev}
    <3>0. UNION {Held(channel[d]) : d \in Client} \subseteq SessInUse
      BY <1>2 DEF SessInUse
    <3>1. s \notin Held(channel[c])
      BY <1>0, <3>0
    <3> QED BY <3>1, <2>2 DEF ClientsShape, ClientShape
  <2>5. \A c \in Reading : reading[c].sess # s
    <3>1. {reading[c].sess : c \in Reading} \subseteq SessInUse
      BY <1>2 DEF SessInUse
    <3> QED BY <1>0, <3>1
  <2> QED BY <1>0, <2>1, <2>3, <2>4, <2>5
<1> QED BY <1>1, <1>2

LEMMA ObjectFields ==
  ASSUME Inv, NEW e \in Objects
  PROVE  /\ e \in Entry /\ entry[e] \in ClientObject
         /\ entry[e].addr \in Addr /\ entry[e].idle \in Ages
         /\ entry[e].ch \in Channels(Sess)
         /\ entry[e].ch.cur \in Sess /\ entry[e].ch.prev \in Sess \cup {NoSession}
         /\ entry[e].ch.left \in 0 .. Grace
         /\ entry[e] = [addr |-> entry[e].addr, ch |-> entry[e].ch, idle |-> entry[e].idle]
BY DEF Objects, Inv, Shapes, ServerShape, ServerTypeOK, ClientObject, Channels

(* Register: the object of the address a, and no other, gets session s. *)
LEMMA RegisterEffect ==
  ASSUME Inv, NEW a \in Addr, NEW s \in Sess, Register(a, s)
  PROVE  \E o \in Entry :
            /\ clients' = [clients EXCEPT ![a] = o]
            /\ entry' \in [Entry -> ClientObject \cup {None}]
            /\ \A e \in Entry \ {o} : entry'[e] = entry[e]
            /\ entry'[o] \in ClientObject /\ entry'[o].addr = a /\ entry'[o].idle = 0
            /\ entry'[o].ch.cur = s /\ KeepsNoOldKey(entry'[o].ch)
            /\ \/ o \notin Objects /\ a \notin Registered /\ entry'[o].ch = NewChannel(s)
               \/ /\ o \in Objects /\ a \in Registered /\ clients[a] = o
                  /\ entry[o].addr = a /\ entry'[o].ch = Rotated(entry[o].ch, s)
<1> USE DEF Inv, Shapes
<1>0. 0 \in Ages
  BY Facts DEF Ages
<1>t. /\ clients \in [Addr -> Entry \cup {None}]
      /\ entry \in [Entry -> ClientObject \cup {None}]
  BY DEF ServerShape, ServerTypeOK
<1>1. CASE /\ a \in Registered
           /\ entry' = [entry EXCEPT ![clients[a]].ch = Rotated(@, s),
                                     ![clients[a]].idle = 0]
           /\ UNCHANGED clients
  <2> DEFINE o == clients[a]
  <2>1. o \in Objects /\ entry[o].addr = a
    BY <1>1 DEF ServerShape, ObjectsInUse
  <2> DEFINE ob == [addr |-> a, ch |-> Rotated(entry[o].ch, s), idle |-> 0]
  <2>2. /\ o \in Entry /\ entry[o].ch.cur \in Sess
        /\ entry[o] = [addr |-> a, ch |-> entry[o].ch, idle |-> entry[o].idle]
    BY <2>1, ObjectFields
  <2>3. Rotated(entry[o].ch, s) \in Channels(Sess)
    BY <2>2, Facts DEF Rotated, Channels
  <2>4. ob \in ClientObject
    BY <1>0, <2>3 DEF ClientObject
  <2>5. \A e \in Entry \ {o} : entry'[e] = entry[e]
    BY <1>1, <1>t
  <2>6. entry'[o] = ob
    <3> DEFINE q == Rotated(entry[o].ch, s)
               h == [entry EXCEPT ![o].ch = q]
    <3>1. h[o] = [addr |-> a, ch |-> q, idle |-> entry[o].idle] /\ o \in DOMAIN h
      <4>1. h[o] = [entry[o] EXCEPT !.ch = q] /\ o \in DOMAIN h
        BY <1>t, <2>2
      <4> HIDE DEF q, h
      <4>2. PICK en, c, n : en = entry[o] /\ en = [addr |-> a, ch |-> c, idle |-> n]
                            /\ n = entry[o].idle
        BY <2>2
      <4>3. [en EXCEPT !.ch = q] = [addr |-> a, ch |-> q, idle |-> n]
        BY <4>2
      <4> QED BY <4>1, <4>2, <4>3
    <3>2. entry' = [h EXCEPT ![o].idle = 0]
      BY <1>1
    <3>3. entry'[o] = [h[o] EXCEPT !.idle = 0]
      BY <3>1, <3>2
    <3> HIDE DEF q, h
    <3>4. [[addr |-> a, ch |-> q, idle |-> entry[o].idle] EXCEPT !.idle = 0]
            = [addr |-> a, ch |-> q, idle |-> 0]
      OBVIOUS
    <3> QED BY <3>1, <3>3, <3>4 DEF q
  <2>7. clients' = [clients EXCEPT ![a] = o]
    BY <1>1, <1>t
  <2>8. /\ ob.ch.cur = s /\ KeepsNoOldKey(ob.ch) /\ ob.addr = a /\ ob.idle = 0
        /\ ob.ch = Rotated(entry[o].ch, s)
    BY Facts DEF Rotated, KeepsNoOldKey
  <2>9. entry' \in [Entry -> ClientObject \cup {None}]
    BY <1>1, <1>t, <2>4, <2>5, <2>6
  <2> QED BY <1>1, <2>1, <2>2, <2>4, <2>5, <2>6, <2>7, <2>8, <2>9
<1>2. CASE /\ a \notin Registered
           /\ \E e \in Free(Entry, {e \in Entry : entry[e] # None}) :
                 /\ clients' = [clients EXCEPT ![a] = e]
                 /\ entry' = [entry EXCEPT ![e] =
                                [addr |-> a, ch |-> NewChannel(s), idle |-> 0]]
  <2> DEFINE ob == [addr |-> a, ch |-> NewChannel(s), idle |-> 0]
  <2>1. PICK o \in Entry : /\ o \notin Objects
                           /\ clients' = [clients EXCEPT ![a] = o]
                           /\ entry' = [entry EXCEPT ![o] = ob]
    BY <1>2 DEF Free, Objects
  <2>2. NewChannel(s) \in Channels(Sess)
    BY Facts DEF NewChannel, Channels
  <2>3. ob \in ClientObject
    BY <1>0, <2>2 DEF ClientObject
  <2>4. /\ ob.ch.cur = s /\ KeepsNoOldKey(ob.ch) /\ ob.addr = a /\ ob.idle = 0
        /\ ob.ch = NewChannel(s)
    BY DEF NewChannel, KeepsNoOldKey
  <2>5. /\ entry'[o] = ob /\ entry' \in [Entry -> ClientObject \cup {None}]
        /\ \A e \in Entry \ {o} : entry'[e] = entry[e]
    BY <1>t, <2>1, <2>3
  <2> QED BY <1>2, <2>1, <2>3, <2>4, <2>5
<1> QED BY <1>1, <1>2 DEF Register

LEMMA ServerKeepsQuiet ==
  ASSUME Inv, ServerKeeps
  PROVE  /\ ClientsQuiet /\ ClientsShape' /\ cNonce' = cNonce /\ cSeen' = cSeen
         /\ channel' = channel /\ pending' = pending /\ reading' = reading
         /\ Running' = Running /\ Reading' = Reading
         /\ restarts' = restarts /\ gone' = gone
BY SameClients DEF ServerKeeps, clientVars, Running, Reading

LEMMA AcceptHandshakeInv ==
  ASSUME Inv, NEW m \in net, NEW s \in Free(Sess, SessInUse), AcceptHandshake(m, s),
         ServerKeeps
  PROVE  Inv'
<1> USE DEF Inv, Shapes
<1>k. /\ ClientsQuiet /\ ClientsShape' /\ cNonce' = cNonce /\ cSeen' = cSeen
      /\ channel' = channel /\ pending' = pending /\ reading' = reading
      /\ Running' = Running /\ Reading' = Reading
      /\ restarts' = restarts /\ gone' = gone
  BY ServerKeepsQuiet
<1>f. /\ s \in Sess
      /\ \A n \in Responses \cup Frames : n.sess # s
      /\ \A e \in Objects : s \notin {entry[e].ch.cur, entry[e].ch.prev}
      /\ \A c \in Client : s \notin {channel[c].cur, channel[c].prev}
      /\ \A c \in Reading : reading[c].sess # s
  BY FreshSession
<1> DEFINE a == m.addr
           r == Msg2(a, m.ini, s)
<1>m. /\ m \in Firsts /\ a \in Addr /\ m.ini \in Ini /\ m.key \in Allowed
      /\ m.key \in Client
  BY Fields DEF AcceptHandshake, Authorised, WireShape, Firsts
<1>0. reply = None /\ taken = NothingTaken
  BY DEF AcceptHandshake, UdpReady
<1>1. net' \subseteq net /\ net' \subseteq Message
  BY ReceiveShrinks DEF AcceptHandshake
<1>2. /\ r.sess = s /\ r.ini = m.ini /\ reply' = r
      /\ r \in [type : {"msg2"}, addr : Addr, ini : Ini, sess : Sess]
  BY <1>f, <1>m DEF Msg2, AcceptHandshake
<1>3. /\ Frames' \subseteq Frames /\ Responses' \subseteq Responses \cup {r}
      /\ Firsts' \subseteq Firsts
  BY <1>1, <1>2 DEF Frames, Responses, Firsts
<1>4. PICK o \in Entry :
            /\ clients' = [clients EXCEPT ![a] = o]
            /\ entry' \in [Entry -> ClientObject \cup {None}]
            /\ \A e \in Entry \ {o} : entry'[e] = entry[e]
            /\ entry'[o] \in ClientObject /\ entry'[o].addr = a /\ entry'[o].idle = 0
            /\ entry'[o].ch.cur = s /\ KeepsNoOldKey(entry'[o].ch)
            /\ \/ o \notin Objects /\ a \notin Registered /\ entry'[o].ch = NewChannel(s)
               \/ /\ o \in Objects /\ a \in Registered /\ clients[a] = o
                  /\ entry[o].addr = a /\ entry'[o].ch = Rotated(entry[o].ch, s)
  BY <1>f, <1>m, RegisterEffect DEF AcceptHandshake
<1>5. Objects' = Objects \cup {o}
  BY <1>4, Facts DEF Objects
<1>6. UNCHANGED <<taken, sweep, round, sent, writes, disturbed>>
  BY DEF AcceptHandshake
<1>n. /\ \A q \in Sess \ {s} : /\ sNonce'[q] = sNonce[q] /\ sSeen'[q] = sSeen[q]
                               /\ owner'[q] = owner[q]
      /\ owner'[s] = m.key
      /\ sNonce' \in [Sess -> 0 .. MaxCounter + 1] /\ sSeen' \in [Sess -> SUBSET Counter]
      /\ owner' \in [Sess -> Client \cup {None}]
  <2>1. 0 \in 0 .. MaxCounter + 1
    BY Facts
  <2> QED BY <2>1, <1>f, <1>m DEF AcceptHandshake, ServerShape, ServerTypeOK
<1>7. WireShape'
  BY <1>1, <1>6, <1>k DEF WireShape
<1>8. ServerShape'
  <2>1. ServerTypeOK'
    BY <1>2, <1>4, <1>6, <1>m, <1>n DEF ServerShape, ServerTypeOK
  <2>2. ObjectsInUse'
    <3>1. ASSUME NEW b \in Registered' PROVE clients'[b] \in Objects' /\ entry'[clients'[b]].addr = b
      <4>1. CASE b = a
        BY <1>4, <1>5, <1>m, <4>1 DEF ServerShape, ServerTypeOK
      <4>2. CASE b # a
        <5>1. clients'[b] = clients[b] /\ b \in Registered
          BY <1>4, <3>1, <4>2 DEF ServerShape, ServerTypeOK, Registered
        <5>2. clients[b] \in Objects /\ entry[clients[b]].addr = b
          BY <5>1 DEF ServerShape, ObjectsInUse
        <5> QED BY <1>4, <1>5, <4>2, <5>1, <5>2 DEF Objects
      <4> QED BY <4>1, <4>2
    <3>2. \A e \in Objects : entry'[e].addr = entry[e].addr
      BY <1>4 DEF Objects
    <3>3. \A e \in Objects' : KeepsNoOldKey(entry'[e].ch)
      BY <1>4, <1>5 DEF ServerShape, ObjectsInUse, Objects
    <3>4. /\ round'.todo \subseteq Objects'
          /\ \A e, g \in round'.todo : e # g => entry'[e].addr # entry'[g].addr
      BY <1>5, <1>6, <3>2 DEF ServerShape, ObjectsInUse
    <3> QED BY <1>0, <1>6, <3>1, <3>3, <3>4 DEF ObjectsInUse
  <2>3. RoundShape'
    BY <1>6 DEF ServerShape, RoundShape
  <2> QED BY <2>1, <2>2, <2>3 DEF ServerShape
<1>t. /\ \A n \in Responses \cup Frames : n.sess \in Sess \ {s}
      /\ \A e \in Objects : entry[e].ch.cur \in Sess /\ entry[e].ch.prev \in Sess \cup {NoSession}
      /\ \A c \in Running : channel[c].cur \in Sess /\ channel[c].prev \in Sess \cup {NoSession}
      /\ \A c \in Reading : reading[c].sess \in Sess
  <2>1. \A n \in Responses \cup Frames : n.sess \in Sess
    BY Fields DEF Responses, Frames, WireShape, ServerShape, ServerTypeOK
  <2>2. \A c \in Running : channel[c].cur \in Sess /\ channel[c].prev \in Sess \cup {NoSession}
    BY DEF Running, ClientsShape, ClientShape, ClientTypeOK, Channels
  <2>3. \A c \in Reading : reading[c].sess \in Sess
    BY DEF Reading, ClientsShape, ClientTypeOK, Reads
  <2> QED BY <1>f, <2>1, <2>2, <2>3, ObjectFields
<1>9. Owners'
  <2>1. ASSUME NEW n \in Responses'
        PROVE  /\ owner'[n.sess] \in Allowed
               /\ \A c \in Client : n.ini = pending'[c] => owner'[n.sess] = c
    <3>1. CASE n = r
      BY <1>2, <1>m, <1>n, <1>k, <3>1 DEF Owners
    <3>2. CASE n \in Responses
      BY <1>t, <1>n, <1>k, <3>2 DEF Owners
    <3> QED BY <1>3, <3>1, <3>2
  <2>2. ASSUME NEW c \in Running', NEW q \in {channel'[c].cur, channel'[c].prev} \ {NoSession}
        PROVE  owner'[q] = c /\ c \in Allowed
    <3>1. c \in Running /\ c \in Client /\ q \in {channel[c].cur, channel[c].prev} \ {NoSession}
      BY <1>k DEF Running
    <3>2. owner[q] = c /\ c \in Allowed /\ q \in Sess \ {s}
      BY <1>t, <1>f, <3>1 DEF Owners
    <3> QED BY <1>n, <3>2
  <2>3. \A c \in Reading' : owner'[reading'[c].sess] = c /\ c \in Allowed
    BY <1>f, <1>k, <1>n, <1>t DEF Owners
  <2>4. ASSUME NEW e \in Objects', NEW q \in {entry'[e].ch.cur, entry'[e].ch.prev} \ {NoSession}
        PROVE  owner'[q] \in Allowed
    <3>1. CASE e # o
      <4>1. e \in Objects /\ q \in {entry[e].ch.cur, entry[e].ch.prev} \ {NoSession}
        BY <1>4, <1>5, <3>1, <2>4 DEF Objects
      <4>2. owner[q] \in Allowed /\ q \in Sess \ {s}
        BY <1>f, <1>t, <4>1 DEF Owners
      <4> QED BY <1>n, <4>2
    <3>2. CASE e = o
      <4>1. CASE q = s
        BY <1>m, <1>n, <4>1
      <4>2. CASE q # s
        <5>1. o \in Objects /\ q = entry[o].ch.cur
          BY <1>4, <3>2, <4>2, <2>4 DEF NewChannel, Rotated
        <5>2. owner[q] \in Allowed /\ q \in Sess \ {s}
          BY <1>t, <4>2, <5>1, Facts DEF Owners
        <5> QED BY <1>n, <5>2
      <4> QED BY <4>1, <4>2
    <3> QED BY <3>1, <3>2
  <2>5. \A n \in Frames' : owner'[n.sess] \in Allowed
    BY <1>3, <1>n, <1>t DEF Owners
  <2>6. \A n \in Firsts', c \in Client : n.ini = pending'[c] => n.key = c
    BY <1>3, <1>k DEF Owners
  <2> QED BY <2>1, <2>2, <2>3, <2>4, <2>5, <2>6 DEF Owners
<1>10. Untouched'
  <2>1. \A q : Awaited(q)' => q = s \/ Awaited(q)
    BY <1>2, <1>3, <1>k DEF Awaited
  <2>2. \A q \in Sess \ {s} : Awaited(q)' =>
           /\ \A c \in Client : q \notin {channel[c].cur, channel[c].prev}
           /\ \A n \in Frames' : n.sess = q => n.dir = "down" /\ writes[DatagramOf(n)] = 0
    BY <1>3, <2>1 DEF Untouched
  <2>3. /\ \A c \in Client : s \notin {channel[c].cur, channel[c].prev}
        /\ \A n \in Frames' : n.sess # s
    BY <1>3, <1>f
  <2> QED BY <1>6, <1>k, <2>2, <2>3 DEF Untouched, DatagramOf
<1>11. Sealed'
  <2>1. \A n \in Frames' : n.seq < Nonce(n)'
    BY <1>3, <1>k, <1>n, <1>t DEF Sealed, Nonce
  <2>2. ASSUME NEW e \in round'.todo
        PROVE  [dir |-> "down", addr |-> entry'[e].addr, pkt |-> round'.pkt] \notin sent'
    <3>1. e \in round.todo /\ e \in Objects
      BY <1>6 DEF ServerShape, ObjectsInUse
    <3>2. entry'[e].addr = entry[e].addr
      BY <1>4, <3>1 DEF Objects
    <3> QED BY <1>6, <3>1, <3>2 DEF Sealed
  <2> QED BY <1>3, <1>6, <2>1, <2>2 DEF Sealed, DatagramOf
<1>12. HandedUp'
  <2>1. \A n \in Frames' : Seen(n)' = Seen(n)
    BY <1>3, <1>k, <1>n, <1>t DEF Seen
  <2> QED BY <1>0, <1>3, <1>6, <2>1 DEF HandedUp, DatagramOf
<1> QED BY <1>k, <1>7, <1>8, <1>9, <1>10, <1>11, <1>12

(* A step that adds no object, keeps the addresses and the sessions of those it
   keeps, and loses none that is referred to. *)
LEMMA ObjectsStay ==
  ASSUME Inv, entry' \in [Entry -> ClientObject \cup {None}],
         \A e \in Objects' :
            /\ e \in Objects /\ entry'[e].addr = entry[e].addr
            /\ entry'[e].ch.cur = entry[e].ch.cur
            /\ entry'[e].ch.prev \in {entry[e].ch.prev, NoSession}
            /\ KeepsNoOldKey(entry'[e].ch),
         clients' \in [Addr -> Entry \cup {None}],
         \A a \in Registered' : clients'[a] = clients[a] /\ clients'[a] \in Objects',
         round'.todo \subseteq round.todo, round'.todo \subseteq Objects',
         round'.todo # {} => round'.pkt = round.pkt,
         taken' = NothingTaken \/ (taken' = taken /\ taken.entry \in Objects'),
         owner' = owner
  PROVE  ObjectsInUse' /\ ObjectsQuiet /\ RoundQuiet
<1> USE DEF Inv, Shapes, ServerShape
<1>1. \A a \in Registered' : a \in Registered
  <2>1. \A a \in Registered' : a \in Addr /\ clients'[a] # None /\ clients'[a] = clients[a]
    BY DEF Registered
  <2> QED BY <2>1 DEF Registered
<1>2. ObjectsInUse'
  <2>1. \A a \in Registered' : entry'[clients'[a]].addr = a
    BY <1>1 DEF ObjectsInUse
  <2>2. \A e, f \in round'.todo : e # f => entry'[e].addr # entry'[f].addr
    BY DEF ObjectsInUse
  <2>3. taken' # NothingTaken =>
           taken'.entry \in Objects' /\ entry'[taken'.entry].addr = taken'.pkt.addr
    BY DEF ObjectsInUse
  <2> QED BY <2>1, <2>2, <2>3 DEF ObjectsInUse
<1>3. ObjectsQuiet
  BY DEF ObjectsQuiet
<1>4. RoundQuiet
  BY DEF RoundQuiet
<1> QED BY <1>2, <1>3, <1>4

(* A step that leaves every part of the invariant but the shapes quiet. *)
LEMMA QuietStep ==
  ASSUME Inv, WireShape', ServerShape', ClientsShape', ClientsQuiet, NothingNew,
         ObjectsQuiet, RoundQuiet, taken' \in {taken, NothingTaken},
         UNCHANGED <<sent, writes, cNonce, cSeen, sNonce, sSeen>>
  PROVE  Inv'
<1>1. MessagesQuiet
  BY NothingNewIsQuiet
<1>2. Owners' /\ Untouched' /\ Sealed' /\ HandedUp'
  BY <1>1, OwnersQuiet, UntouchedQuiet, SealedQuiet, HandedUpQuiet DEF MessagesQuiet
<1> QED BY <1>2 DEF Inv, Shapes

LEMMA SameServer ==
  ASSUME Inv, UNCHANGED serverVars
  PROVE  ServerShape' /\ ObjectsQuiet /\ RoundQuiet
<1>1. ServerTypeOK'
  BY DEF serverVars, Inv, Shapes, ServerShape, ServerTypeOK
<1>2. ObjectsInUse'
  BY DEF serverVars, Inv, Shapes, ServerShape, ObjectsInUse, Registered, Objects
<1>3. RoundShape'
  BY DEF serverVars, Inv, Shapes, ServerShape, RoundShape
<1>4. ObjectsQuiet /\ RoundQuiet
  BY DEF serverVars, ObjectsQuiet, RoundQuiet, Objects
<1> QED BY <1>1, <1>2, <1>3, <1>4 DEF ServerShape

(* The network alone: datagrams vanish, and pings appear. *)
LEMMA OnlyNet ==
  ASSUME Inv, UNCHANGED <<serverVars, clientVars, sent, writes, restarts, gone>>,
         net' \subseteq Message, \A m \in net' : m \in net \/ m.type = "ping",
         disturbed' \in BOOLEAN
  PROVE  Inv'
<1>1. ServerShape' /\ ObjectsQuiet /\ RoundQuiet /\ ClientsShape' /\ ClientsQuiet
  BY SameServer, SameClients
<1>2. WireShape'
  BY DEF Inv, Shapes, WireShape
<1>3. NothingNew
  BY DEF NothingNew, serverVars
<1> QED BY <1>1, <1>2, <1>3, QuietStep DEF serverVars, clientVars

LEMMA RefuseHandshakeInv ==
  ASSUME Inv, NEW m \in net, RefuseHandshake(m) \/ DropData(m), ServerKeeps
  PROVE  Inv'
<1>1. net' \subseteq net /\ net' \subseteq Message
  BY ReceiveShrinks DEF RefuseHandshake, DropData
<1> QED BY <1>1, OnlyNet DEF RefuseHandshake, DropData, ServerKeeps, Inv, Shapes, WireShape

LEMMA LoseInv ==
  ASSUME Inv, NEW m \in net, Lose(m)
  PROVE  Inv'
<1>1. net' \subseteq net /\ net' \subseteq Message
  BY DEF Lose, Inv, Shapes, WireShape
<1>2. disturbed' \in BOOLEAN
  BY DEF Lose
<1> QED BY <1>1, <1>2, OnlyNet DEF Lose

LEMMA StrayPingInv ==
  ASSUME Inv, NEW a \in Addr, StrayPing(a)
  PROVE  Inv'
<1>1. Ping(a) \in Message /\ Ping(a).type = "ping"
  BY DEF Ping, Message
<1>2. net' \subseteq Message /\ \A m \in net' : m \in net \/ m.type = "ping"
  BY <1>1 DEF StrayPing, Send, Inv, Shapes, WireShape
<1> QED BY <1>2, OnlyNet DEF StrayPing, Inv, Shapes, WireShape

LEMMA SendReplyInv ==
  ASSUME Inv, SendReply, ServerKeeps
  PROVE  Inv'
<1> USE DEF Inv, Shapes
<1>k. ClientsQuiet /\ ClientsShape' /\ cNonce' = cNonce /\ cSeen' = cSeen
      /\ restarts' = restarts /\ gone' = gone
  BY ServerKeepsQuiet
<1>1. reply \in Message /\ net' = net \cup {reply} /\ reply' = None
  BY DEF SendReply, Send, ServerShape, ServerTypeOK, Message
<1>2. WireShape' /\ NothingNew
  BY <1>1, <1>k DEF SendReply, WireShape, NothingNew
<1>3. UNCHANGED <<clients, entry, taken, sweep, round, sNonce, sSeen, owner, sent, writes>>
  BY DEF SendReply
<1>4. ServerShape'
  <2>1. ServerTypeOK'
    BY <1>1, <1>3 DEF ServerShape, ServerTypeOK
  <2>2. ObjectsInUse'
    BY <1>3 DEF ServerShape, ObjectsInUse, Registered, Objects
  <2>3. RoundShape'
    BY <1>3 DEF ServerShape, RoundShape
  <2> QED BY <2>1, <2>2, <2>3 DEF ServerShape
<1>5. ObjectsQuiet /\ RoundQuiet
  BY <1>3 DEF ObjectsQuiet, RoundQuiet, Objects
<1> QED BY <1>k, <1>2, <1>3, <1>4, <1>5, QuietStep

(* lastSeen of an object is renewed. *)
Renewed(o) == [entry EXCEPT ![o].idle = 0]

LEMMA SeenAgain ==
  ASSUME Inv, NEW o \in Objects
  PROVE  /\ Renewed(o) \in [Entry -> ClientObject \cup {None}]
         /\ Renewed(o)[o] = [addr |-> entry[o].addr, ch |-> entry[o].ch, idle |-> 0]
         /\ \A e \in Entry \ {o} : Renewed(o)[e] = entry[e]
         /\ \A e \in Entry : Renewed(o)[e] # None <=> entry[e] # None
         /\ \A e \in Objects : Renewed(o)[e].addr = entry[e].addr /\ Renewed(o)[e].ch = entry[e].ch
<1> DEFINE heap == Renewed(o)
<1>t. entry \in [Entry -> ClientObject \cup {None}] /\ o \in Entry /\ 0 \in Ages
  BY Facts DEF Inv, Shapes, ServerShape, ServerTypeOK, Objects, Ages
<1>1. heap[o] = [entry[o] EXCEPT !.idle = 0]
  BY <1>t DEF Renewed
<1>2. PICK en, a, h, n : /\ en = entry[o] /\ en = [addr |-> a, ch |-> h, idle |-> n]
                         /\ a = entry[o].addr /\ h = entry[o].ch
  BY ObjectFields
<1>3. [en EXCEPT !.idle = 0] = [addr |-> a, ch |-> h, idle |-> 0]
  BY <1>2
<1>4. heap[o] = [addr |-> entry[o].addr, ch |-> entry[o].ch, idle |-> 0]
  BY <1>1, <1>2, <1>3
<1>5. \A e \in Entry \ {o} : heap[e] = entry[e]
  BY <1>t DEF Renewed
<1>6. heap[o] \in ClientObject
  <2>1. entry[o].addr \in Addr /\ entry[o].ch \in Channels(Sess) /\ 0 \in Ages
    BY <1>t, ObjectFields
  <2> QED BY <2>1, <1>4 DEF ClientObject
<1>7. heap \in [Entry -> ClientObject \cup {None}]
  BY <1>t, <1>5, <1>6 DEF Renewed
<1>8. heap[o].addr = entry[o].addr /\ heap[o].ch = entry[o].ch
  BY <1>4
<1>9. \A e \in Objects : heap[e].addr = entry[e].addr /\ heap[e].ch = entry[e].ch
  BY <1>5, <1>8 DEF Objects
<1>10. heap[o] # None /\ entry[o] # None
  BY <1>6, Facts DEF Objects
<1>11. \A e \in Entry : heap[e] # None <=> entry[e] # None
  BY <1>5, <1>10
<1> QED BY <1>4, <1>5, <1>7, <1>9, <1>11

LEMMA KeptObjects ==
  ASSUME NEW heap \in [Entry -> ClientObject \cup {None}],
         NEW cl, NEW tk, NEW rd
  PROVE  /\ Kept(heap, cl, tk, rd) \in [Entry -> ClientObject \cup {None}]
         /\ \A e \in Entry :
              /\ Kept(heap, cl, tk, rd)[e] \in {heap[e], None}
              /\ (\E a \in Addr : cl[a] = e) \/ tk.entry = e \/ e \in rd.todo
                   => Kept(heap, cl, tk, rd)[e] = heap[e]
BY DEF Kept

LEMMA HandlePingInv ==
  ASSUME Inv, NEW m \in net, HandlePing(m), ServerKeeps
  PROVE  Inv'
<1> USE DEF Inv, Shapes
<1>k. ClientsQuiet /\ ClientsShape' /\ cNonce' = cNonce /\ cSeen' = cSeen
      /\ restarts' = restarts /\ gone' = gone
  BY ServerKeepsQuiet
<1>1. net' \subseteq net /\ net' \subseteq Message
  BY ReceiveShrinks DEF HandlePing
<1>2. UNCHANGED <<clients, reply, taken, sweep, round, sNonce, sSeen, owner,
                  sent, writes, disturbed>>
  BY DEF HandlePing
<1>3. WireShape' /\ NothingNew
  BY <1>1, <1>2, <1>k DEF WireShape, NothingNew
<1>4. /\ entry' \in [Entry -> ClientObject \cup {None}] /\ Objects' = Objects
      /\ \A e \in Objects : entry'[e].addr = entry[e].addr /\ entry'[e].ch = entry[e].ch
  <2>1. CASE m.addr \in Registered
    <3>1. PICK o \in Objects : o = clients[m.addr]
      BY <2>1 DEF ServerShape, ObjectsInUse
    <3>2. entry' = Renewed(o)
      BY <2>1, <3>1 DEF HandlePing, Renewed
    <3>3. /\ entry' \in [Entry -> ClientObject \cup {None}]
          /\ \A e \in Entry : entry'[e] # None <=> entry[e] # None
          /\ \A e \in Objects : entry'[e].addr = entry[e].addr /\ entry'[e].ch = entry[e].ch
      BY <3>2, SeenAgain
    <3> QED BY <3>3 DEF Objects
  <2>2. CASE m.addr \notin Registered
    BY <2>2 DEF HandlePing, ServerShape, ServerTypeOK, Objects
  <2> QED BY <2>1, <2>2
<1>5. ObjectsInUse' /\ ObjectsQuiet /\ RoundQuiet
  <2>1. \A a \in Registered' : clients'[a] = clients[a] /\ clients'[a] \in Objects'
    BY <1>2, <1>4 DEF ServerShape, ObjectsInUse, Registered
  <2>2. \A e \in Objects' : KeepsNoOldKey(entry'[e].ch)
    BY <1>4 DEF ServerShape, ObjectsInUse
  <2>3. round.todo \subseteq Objects' /\ (taken # NothingTaken => taken.entry \in Objects')
    BY <1>4 DEF ServerShape, ObjectsInUse
  <2> QED BY <1>2, <1>4, <2>1, <2>2, <2>3, ObjectsStay DEF ServerShape, ServerTypeOK
<1>6. ServerShape'
  BY <1>2, <1>4, <1>5 DEF ServerShape, ServerTypeOK, RoundShape
<1> QED BY <1>k, <1>2, <1>3, <1>5, <1>6, QuietStep

LEMMA DecryptDataInv ==
  ASSUME Inv, NEW m \in ToServer, DecryptData(m), ServerKeeps
  PROVE  Inv'
<1> USE DEF Inv, Shapes
<1>k. /\ ClientsQuiet /\ ClientsShape' /\ cNonce' = cNonce /\ cSeen' = cSeen
      /\ channel' = channel /\ pending' = pending /\ reading' = reading
      /\ restarts' = restarts /\ gone' = gone
  BY ServerKeepsQuiet
<1>m. m \in net /\ m.type = "data" /\ m.dir = "up" /\ m.addr \in Registered
  BY DEF ToServer, DecryptData, ServerAccepts
<1>f. /\ m \in Frames /\ m.sess \in Sess /\ m.seq \in Counter /\ m.addr \in Addr
      /\ DatagramOf(m) \in Datagram /\ DatagramOf(m).dir = "up"
      /\ DatagramOf(m).addr = m.addr
  BY <1>m, Fields DEF Frames, WireShape, DatagramOf
<1> DEFINE o == clients[m.addr]
           d == DatagramOf(m)
<1>o. o \in Objects /\ o \in Entry /\ entry[o].addr = m.addr
  BY <1>m DEF ServerShape, ObjectsInUse, Objects
<1>1. net' \subseteq net /\ net' \subseteq Message
  BY <1>m, ReceiveShrinks DEF DecryptData
<1>2. /\ sSeen' = [sSeen EXCEPT ![m.sess] = @ \cup {m.seq}]
      /\ taken' = [entry |-> o, pkt |-> d]
      /\ UNCHANGED <<clients, entry, reply, sweep, round, sNonce, owner,
                     sent, writes, disturbed>>
  BY DEF DecryptData
<1>3. taken'.entry = o /\ taken'.pkt = d /\ taken' # NothingTaken
  BY <1>2, <1>o, Facts DEF NothingTaken
<1>4. WireShape' /\ NothingNew
  BY <1>1, <1>2, <1>k DEF WireShape, NothingNew
<1>5. /\ sSeen' \in [Sess -> SUBSET Counter]
      /\ \A s \in Sess : sSeen[s] \subseteq sSeen'[s]
      /\ m.seq \in sSeen'[m.sess]
  BY <1>f, <1>2 DEF ServerShape, ServerTypeOK
<1>6. ServerShape'
  <2>1. ServerTypeOK'
    BY <1>2, <1>3, <1>5, <1>f, <1>o DEF ServerShape, ServerTypeOK
  <2>2. ObjectsInUse'
    BY <1>2, <1>3, <1>f, <1>o DEF ServerShape, ObjectsInUse, Registered, Objects
  <2>3. RoundShape'
    BY <1>2 DEF ServerShape, RoundShape
  <2> QED BY <2>1, <2>2, <2>3 DEF ServerShape
<1>7. ObjectsQuiet /\ RoundQuiet
  BY <1>2 DEF ObjectsQuiet, RoundQuiet, Objects
<1>8. MessagesQuiet
  BY <1>4, NothingNewIsQuiet
<1>9. Owners' /\ Untouched' /\ Sealed'
  BY <1>k, <1>2, <1>7, <1>8, OwnersQuiet, UntouchedQuiet, SealedQuiet DEF MessagesQuiet
<1>10. HandedUp'
  <2>1. \A n \in Frames : n.sess \in Sess /\ n.dir \in {"up", "down"}
    BY Fields DEF Frames, WireShape
  <2>2. \A n \in Frames : Seen(n) \subseteq Seen(n)'
    BY <1>k, <1>5, <2>1 DEF Seen
  <2>3. m.seq \notin Seen(m)
    BY <1>m DEF DecryptData, ServerAccepts, Accepts, Opens, Fresh, Seen
  <2>4. writes[d] = 0 /\ d \in sent
    BY <1>f, <2>3 DEF HandedUp, Sealed
  <2>5. ASSUME NEW n \in Frames', DatagramOf(n) = d PROVE n.seq \in Seen(n)'
    <3>1. n = m
      BY <1>8, <1>f, <2>5 DEF MessagesQuiet, Sealed
    <3> QED BY <1>5, <1>m, <3>1, <2>5 DEF Seen
  <2> QED BY <1>2, <1>3, <1>8, <1>f, <2>2, <2>4, <2>5 DEF HandedUp, MessagesQuiet, DatagramOf
<1> QED BY <1>k, <1>4, <1>6, <1>9, <1>10

LEMMA FinishDataInv ==
  ASSUME Inv, FinishData, ServerKeeps
  PROVE  Inv'
<1> USE DEF Inv, Shapes
<1>k. /\ ClientsQuiet /\ ClientsShape' /\ cNonce' = cNonce /\ cSeen' = cSeen
      /\ channel' = channel /\ pending' = pending /\ reading' = reading
      /\ Reading' = Reading /\ restarts' = restarts /\ gone' = gone
  BY ServerKeepsQuiet
<1>1. taken # NothingTaken
  BY DEF FinishData
<1>2. PICK o \in Objects : o = taken.entry
  BY <1>1 DEF ServerShape, ObjectsInUse
<1>d. PICK d \in Datagram : /\ d = taken.pkt /\ d \in sent /\ d.dir = "up" /\ writes[d] = 0
                            /\ \A m \in Frames : DatagramOf(m) = d => m.seq \in Seen(m)
  BY <1>1 DEF HandedUp, ServerShape, ServerTypeOK
<1>3. /\ entry' = Kept(Renewed(o), clients, NothingTaken, round)
      /\ writes' = [writes EXCEPT ![d] = @ + 1] /\ taken' = NothingTaken
      /\ UNCHANGED <<clients, reply, sweep, round, sNonce, sSeen, owner,
                     net, sent, disturbed>>
  BY <1>2, <1>d DEF FinishData, Renewed, TunWrite
<1>4. /\ Renewed(o) \in [Entry -> ClientObject \cup {None}]
      /\ \A e \in Entry : Renewed(o)[e] # None <=> entry[e] # None
      /\ \A e \in Objects : /\ Renewed(o)[e].addr = entry[e].addr
                            /\ Renewed(o)[e].ch = entry[e].ch
  BY <1>2, SeenAgain
<1>5. /\ entry' \in [Entry -> ClientObject \cup {None}]
      /\ \A e \in Entry :
           /\ entry'[e] \in {Renewed(o)[e], None}
           /\ (\E a \in Addr : clients[a] = e) \/ e \in round.todo
                => entry'[e] = Renewed(o)[e]
  BY <1>3, <1>4, KeptObjects
<1>6. ASSUME NEW e \in Objects'
      PROVE  e \in Objects /\ entry'[e].addr = entry[e].addr /\ entry'[e].ch = entry[e].ch
  BY <1>4, <1>5 DEF Objects
<1>7. ObjectsInUse' /\ ObjectsQuiet /\ RoundQuiet
  <2>1. ASSUME NEW a \in Registered'
        PROVE clients'[a] = clients[a] /\ clients'[a] \in Objects'
    <3>1. a \in Addr /\ clients' = clients /\ clients[a] \in Objects
      BY <1>3 DEF ServerShape, ObjectsInUse, Registered
    <3> QED BY <3>1, <1>4, <1>5 DEF Objects
  <2>2. \A e \in Objects' : KeepsNoOldKey(entry'[e].ch)
    BY <1>6 DEF ServerShape, ObjectsInUse
  <2>3. round.todo \subseteq Objects'
    BY <1>4, <1>5 DEF ServerShape, ObjectsInUse, Objects
  <2> QED BY <1>3, <1>5, <1>6, <2>1, <2>2, <2>3, ObjectsStay DEF ServerShape, ServerTypeOK
<1>8. ServerShape'
  BY <1>3, <1>5, <1>7 DEF ServerShape, ServerTypeOK, RoundShape
<1>9. /\ writes' \in [Datagram -> 0 .. 1]
      /\ writes'[d] = 1 /\ \A q \in Datagram \ {d} : writes'[q] = writes[q]
  BY <1>3, <1>d DEF WireShape
<1>10. WireShape' /\ NothingNew /\ MessagesQuiet
  <2>1. WireShape' /\ NothingNew
    BY <1>3, <1>9, <1>k DEF WireShape, NothingNew
  <2> QED BY <2>1, NothingNewIsQuiet
<1>11. Owners' /\ Sealed'
  BY <1>k, <1>3, <1>7, <1>10, OwnersQuiet, SealedQuiet DEF MessagesQuiet
<1>f. \A m \in Frames : DatagramOf(m) \in Datagram /\ DatagramOf(m).dir = m.dir
  BY Fields DEF Frames, WireShape, DatagramOf
<1>12. Untouched'
  <2>1. \A s : Awaited(s)' => Awaited(s)
    BY <1>k, <1>10 DEF Awaited, MessagesQuiet
  <2>2. \A m \in Frames : m.dir = "down" => writes'[DatagramOf(m)] = writes[DatagramOf(m)]
    BY <1>9, <1>d, <1>f
  <2> QED BY <1>k, <1>10, <2>1, <2>2 DEF Untouched, MessagesQuiet, DatagramOf
<1>13. HandedUp'
  <2>1. \A m \in Frames : Seen(m)' = Seen(m)
    BY <1>k, <1>3 DEF Seen
  <2>2. \A q \in Datagram : writes'[q] # 0 => q \in sent'
    BY <1>3, <1>9, <1>d DEF HandedUp
  <2>3. ASSUME NEW m \in Frames', writes'[DatagramOf(m)] # 0 PROVE m.seq \in Seen(m)'
    <3>1. m \in Frames
      BY <1>10 DEF MessagesQuiet
    <3> QED BY <3>1, <2>1, <2>3, <1>9, <1>d, <1>f DEF HandedUp
  <2> QED BY <1>3, <2>2, <2>3 DEF HandedUp, DatagramOf
<1> QED BY <1>k, <1>8, <1>10, <1>11, <1>12, <1>13

LEMMA ReadTunInv ==
  ASSUME Inv, NEW p \in DownPacket, ReadTun(p), ServerKeeps
  PROVE  Inv'
<1> USE DEF Inv, Shapes
<1>k. /\ ClientsQuiet /\ ClientsShape' /\ cNonce' = cNonce /\ cSeen' = cSeen
      /\ restarts' = restarts /\ gone' = gone
  BY ServerKeepsQuiet
<1>1. /\ round'.pkt = p /\ round'.todo = Holding
      /\ round' = [pkt |-> round'.pkt, todo |-> round'.todo]
      /\ UNCHANGED <<clients, entry, reply, taken, sweep, sNonce, sSeen, owner,
                     net, sent, writes, disturbed>>
  BY DEF ReadTun
<1>2. WireShape' /\ NothingNew
  BY <1>1, <1>k DEF WireShape, NothingNew
<1>3. ServerShape'
  <2>1. ServerTypeOK'
    BY <1>1 DEF ServerShape, ServerTypeOK, Holding, Registered
  <2>2. ObjectsInUse'
    BY <1>1 DEF ServerShape, ObjectsInUse, Registered, Objects, Holding
  <2>3. RoundShape'
    BY <1>1 DEF RoundShape
  <2> QED BY <2>1, <2>2, <2>3 DEF ServerShape
<1>4. ObjectsQuiet
  BY <1>1 DEF ObjectsQuiet, Objects
<1>5. MessagesQuiet
  BY <1>2, NothingNewIsQuiet
<1>6. Owners' /\ Untouched' /\ HandedUp'
  BY <1>k, <1>1, <1>4, <1>5, OwnersQuiet, UntouchedQuiet, HandedUpQuiet DEF MessagesQuiet
<1>7. Sealed'
  <2>1. \A m \in Frames' : m \in Frames /\ Nonce(m)' = Nonce(m)
    BY <1>k, <1>1, <1>5 DEF Nonce, MessagesQuiet
  <2>2. \A e \in round'.todo :
          [dir |-> "down", addr |-> entry'[e].addr, pkt |-> round'.pkt] \notin sent'
    BY <1>1 DEF ReadTun, Unread
  <2> QED BY <1>1, <2>1, <2>2 DEF Sealed, DatagramOf
<1> QED BY <1>k, <1>2, <1>3, <1>6, <1>7

LEMMA CleanupInv ==
  ASSUME Inv, CleanupClients, ServerKeeps
  PROVE  Inv'
<1> USE DEF Inv, Shapes
<1>k. /\ ClientsQuiet /\ ClientsShape' /\ cNonce' = cNonce /\ cSeen' = cSeen
      /\ restarts' = restarts /\ gone' = gone
  BY ServerKeepsQuiet
<1> DEFINE kept == [a \in Addr |-> IF a \in Registered /\ ~Silent(clients[a])
                                   THEN clients[a] ELSE None]
<1>1. /\ clients' = kept /\ sweep' = 0 /\ entry' = Kept(entry, kept, taken, round)
      /\ disturbed' \in BOOLEAN
      /\ UNCHANGED <<reply, taken, round, sNonce, sSeen, owner, net, sent, writes>>
  BY DEF CleanupClients
<1>2. /\ kept \in [Addr -> Entry \cup {None}]
      /\ \A a \in Addr : kept[a] # None => a \in Registered /\ kept[a] = clients[a]
  BY DEF ServerShape, ServerTypeOK
<1>3. /\ entry' \in [Entry -> ClientObject \cup {None}]
      /\ \A e \in Entry :
           /\ entry'[e] \in {entry[e], None}
           /\ (\E a \in Addr : kept[a] = e) \/ taken.entry = e \/ e \in round.todo
                => entry'[e] = entry[e]
  BY <1>1, KeptObjects DEF ServerShape, ServerTypeOK
<1> HIDE DEF kept
<1>4. \A e \in Objects' : e \in Objects /\ entry'[e] = entry[e]
  BY <1>3 DEF Objects
<1>5. ObjectsInUse' /\ ObjectsQuiet /\ RoundQuiet
  <2>1. ASSUME NEW a \in Registered'
        PROVE clients'[a] = clients[a] /\ clients'[a] \in Objects'
    <3>1. a \in Addr /\ kept[a] = clients[a] /\ clients[a] \in Objects
      BY <1>1, <1>2 DEF ServerShape, ObjectsInUse, Registered
    <3> QED BY <3>1, <1>1, <1>3 DEF Objects
  <2>2. \A e \in Objects' : KeepsNoOldKey(entry'[e].ch)
    BY <1>4 DEF ServerShape, ObjectsInUse
  <2>3. round.todo \subseteq Objects' /\ (taken # NothingTaken => taken.entry \in Objects')
    BY <1>3 DEF ServerShape, ObjectsInUse, Objects
  <2> QED BY <1>1, <1>2, <1>3, <1>4, <2>1, <2>2, <2>3, ObjectsStay DEF ServerShape, ServerTypeOK
<1>6. ServerShape'
  <2>1. sweep' \in 0 .. SweepPeriod
    BY <1>1, Facts
  <2> QED BY <1>1, <1>2, <1>3, <1>5, <2>1 DEF ServerShape, ServerTypeOK, RoundShape
<1>7. WireShape' /\ NothingNew
  BY <1>1, <1>k DEF WireShape, NothingNew
<1> QED BY <1>k, <1>1, <1>5, <1>6, <1>7, QuietStep

LEMMA RestartInv ==
  ASSUME Inv, Restart
  PROVE  Inv'
<1> USE DEF Inv, Shapes
<1>1. /\ clients' = [a \in Addr |-> None] /\ entry' = [e \in Entry |-> None]
      /\ reply' = None /\ taken' = NothingTaken /\ sweep' = 0 /\ round' = NoRound
      /\ disturbed' = TRUE /\ restarts' = restarts + 1 /\ restarts < MaxRestarts
      /\ UNCHANGED <<sNonce, sSeen, owner, net, sent, writes, gone, clientVars>>
  BY DEF Restart, ServerRestart
<1>2. ClientsQuiet /\ ClientsShape'
  BY <1>1, SameClients
<1>3. Registered' = {} /\ Objects' = {} /\ round'.todo = {} /\ round'.pkt = None
  BY <1>1 DEF Registered, Objects, NoRound
<1>4. ServerShape'
  <2>1. sweep' \in 0 .. SweepPeriod
    BY <1>1, Facts
  <2>2. ServerTypeOK'
    BY <1>1, <1>3, <2>1 DEF ServerShape, ServerTypeOK
  <2> QED BY <1>1, <1>3, <2>2 DEF ServerShape, ObjectsInUse, RoundShape, NoRound
<1>5. ObjectsQuiet /\ RoundQuiet
  BY <1>1, <1>3 DEF ObjectsQuiet, RoundQuiet
<1>6. WireShape' /\ NothingNew
  BY <1>1, Facts DEF WireShape, NothingNew
<1> QED BY <1>1, <1>2, <1>4, <1>5, <1>6, QuietStep DEF clientVars

LEMMA AgedChannel ==
  ASSUME NEW S, NEW ch \in Channels(S)
  PROVE  /\ Lapsed(Aged(ch)) \in Channels(S)
         /\ Lapsed(Aged(ch)).cur = ch.cur
         /\ Lapsed(Aged(ch)).prev \in {ch.prev, NoSession}
         /\ KeepsNoOldKey(Lapsed(Aged(ch)))
         /\ Lapsed(Aged(ch)).left = (IF ch.left > 0 THEN ch.left - 1 ELSE 0)
<1> DEFINE n == IF ch.left > 0 THEN ch.left - 1 ELSE 0
           q == [cur |-> ch.cur, prev |-> ch.prev, left |-> n]
<1>1. ch.cur \in S /\ ch.prev \in S \cup {NoSession} /\ n \in 0 .. Grace
  BY Facts DEF Channels
<1>2. Aged(ch) = q
  BY DEF Aged, Channels
<1>3. Lapsed(q) = IF n = 0 THEN [cur |-> ch.cur, prev |-> NoSession, left |-> n] ELSE q
  BY DEF Lapsed
<1> HIDE DEF n
<1>4. n \in Nat /\ (n # 0 => n > 0)
  BY <1>1
<1> QED BY <1>1, <1>2, <1>3, <1>4 DEF Channels, KeepsNoOldKey, n

(* A tick ages an object and its channel. *)
LEMMA TickObject ==
  ASSUME Inv, Tick, NEW e \in Objects
  PROVE  entry'[e] = [addr |-> entry[e].addr, ch |-> Lapsed(Aged(entry[e].ch)),
                      idle |-> Older(entry[e].idle)]
<1>1. PICK en, a, h, n : /\ en = entry[e] /\ en = [addr |-> a, ch |-> h, idle |-> n]
                         /\ a = entry[e].addr /\ h = entry[e].ch /\ n = entry[e].idle
  BY ObjectFields
<1>2. entry'[e] = [en EXCEPT !.ch = Lapsed(Aged(@)), !.idle = Older(@)]
  BY <1>1 DEF Tick, ServerTick, Objects
<1> DEFINE q == Lapsed(Aged(h))
           k == Older(n)
<1>3. en.ch = h /\ en.idle = n
  BY <1>1
<1>4. entry'[e] = [en EXCEPT !.ch = q, !.idle = k]
  BY <1>2, <1>3
<1> HIDE DEF q, k
<1>5. [en EXCEPT !.ch = q] = [addr |-> a, ch |-> q, idle |-> n]
  BY <1>1
<1>6. [[addr |-> a, ch |-> q, idle |-> n] EXCEPT !.idle = k]
        = [addr |-> a, ch |-> q, idle |-> k]
  OBVIOUS
<1>7. entry'[e] = [addr |-> a, ch |-> q, idle |-> k]
  BY <1>4, <1>5, <1>6
<1> QED BY <1>1, <1>7 DEF q, k

LEMMA TickInv ==
  ASSUME Inv, Tick
  PROVE  Inv'
<1> USE DEF Inv, Shapes
<1>1. /\ sweep < SweepPeriod /\ sweep' = sweep + 1
      /\ entry' = [e \in Entry |->
                     IF entry[e] = None THEN None
                     ELSE [entry[e] EXCEPT !.ch = Lapsed(Aged(@)), !.idle = Older(@)]]
      /\ channel' = [c \in Client |-> Lapsed(Aged(channel[c]))]
      /\ gone' = [a \in Addr |-> IF a \in Registered /\ \A c \in Client : addr[c] # a
                                 THEN Older(gone[a]) ELSE 0]
      /\ UNCHANGED <<net, sent, writes, disturbed, restarts, clients, reply, taken, round,
                     sNonce, sSeen, owner, phase, addr, pending, reading, cNonce, cSeen>>
  BY DEF Tick, ServerTick, ClientTick
<1>o. 0 \in Ages /\ \A n \in Ages : Older(n) \in Ages
  BY Facts DEF Ages, Older
<1>2. WireShape' /\ NothingNew
  <2>1. gone' \in [Addr -> Ages]
    BY <1>1, <1>o DEF WireShape
  <2> QED BY <1>1, <2>1 DEF WireShape, NothingNew
<1>3. ASSUME NEW c \in Client
      PROVE  /\ channel'[c] \in Channels(Sess \cup {NoSession})
             /\ channel'[c].cur = channel[c].cur
             /\ channel'[c].prev \in {channel[c].prev, NoSession}
             /\ KeepsNoOldKey(channel'[c])
             /\ channel[c] = NewChannel(NoSession) => channel'[c] = NewChannel(NoSession)
  <2>1. channel[c] \in Channels(Sess \cup {NoSession})
    BY DEF ClientsShape, ClientTypeOK
  <2>2. channel'[c] = Lapsed(Aged(channel[c]))
    BY <1>1
  <2>3. channel[c] = NewChannel(NoSession) => channel'[c] = NewChannel(NoSession)
    <3> DEFINE z == [cur |-> NoSession, prev |-> NoSession, left |-> 0]
    <3>1. Aged(z) = z /\ Lapsed(z) = z
      BY DEF Lapsed, Aged
    <3> QED BY <2>2, <3>1 DEF NewChannel
  <2> QED BY <2>1, <2>2, <2>3, AgedChannel
<1>4. ClientsShape' /\ ClientsQuiet
  <2>1. ClientTypeOK'
    BY <1>1, <1>3 DEF ClientsShape, ClientTypeOK
  <2>2. ASSUME NEW c \in Client PROVE ClientShape(c)'
    BY <1>1, <1>3 DEF ClientsShape, ClientShape
  <2>3. ClientsQuiet
    BY <1>1, <1>3 DEF ClientsQuiet
  <2> QED BY <2>1, <2>2, <2>3 DEF ClientsShape
<1>5. ASSUME NEW e \in Entry
      PROVE  /\ entry'[e] \in ClientObject \cup {None}
             /\ entry'[e] # None <=> entry[e] # None
             /\ entry[e] # None =>
                  /\ entry'[e].addr = entry[e].addr
                  /\ entry'[e].ch.cur = entry[e].ch.cur
                  /\ entry'[e].ch.prev \in {entry[e].ch.prev, NoSession}
                  /\ KeepsNoOldKey(entry'[e].ch)
  <2>1. CASE entry[e] = None
    BY <1>1, <2>1
  <2>2. CASE entry[e] # None
    <3>1. PICK en, a, h, n : /\ en = entry[e] /\ en = [addr |-> a, ch |-> h, idle |-> n]
                             /\ a \in Addr /\ h \in Channels(Sess) /\ n \in Ages
      BY <2>2, ObjectFields DEF Objects
    <3>2. entry'[e] = [addr |-> a, ch |-> Lapsed(Aged(h)), idle |-> Older(n)]
      <4>1. e \in Objects
        BY <2>2 DEF Objects
      <4>2. entry'[e] = [addr |-> entry[e].addr, ch |-> Lapsed(Aged(entry[e].ch)),
                         idle |-> Older(entry[e].idle)]
        BY <4>1, TickObject
      <4>3. entry[e].addr = a /\ entry[e].ch = h /\ entry[e].idle = n
        BY <3>1
      <4> QED BY <4>2, <4>3
    <3>3. Older(n) \in Ages
      BY <3>1, <1>o
    <3>4. /\ Lapsed(Aged(h)) \in Channels(Sess) /\ Lapsed(Aged(h)).cur = h.cur
          /\ Lapsed(Aged(h)).prev \in {h.prev, NoSession}
          /\ KeepsNoOldKey(Lapsed(Aged(h)))
      BY <3>1, AgedChannel
    <3>5. entry'[e] \in ClientObject
      BY <3>1, <3>2, <3>3, <3>4 DEF ClientObject
    <3> QED BY <2>2, <3>1, <3>2, <3>4, <3>5, Facts
  <2> QED BY <2>1, <2>2
<1>6. entry' \in [Entry -> ClientObject \cup {None}] /\ Objects' = Objects
  BY <1>1, <1>5 DEF Objects
<1>7. ObjectsInUse' /\ ObjectsQuiet /\ RoundQuiet
  <2>1. ASSUME NEW a \in Registered'
        PROVE clients'[a] = clients[a] /\ clients'[a] \in Objects'
    BY <1>1, <1>6 DEF ServerShape, ObjectsInUse, Registered
  <2>2. round.todo \subseteq Objects' /\ (taken # NothingTaken => taken.entry \in Objects')
    BY <1>6 DEF ServerShape, ObjectsInUse
  <2>3. \A e \in Objects' : /\ e \in Objects /\ entry'[e].addr = entry[e].addr
                            /\ entry'[e].ch.cur = entry[e].ch.cur
                            /\ entry'[e].ch.prev \in {entry[e].ch.prev, NoSession}
                            /\ KeepsNoOldKey(entry'[e].ch)
    BY <1>5, <1>6 DEF Objects
  <2> QED BY <1>1, <1>6, <2>1, <2>2, <2>3, ObjectsStay DEF ServerShape, ServerTypeOK
<1>8. ServerShape'
  <2>0. sweep \in 0 .. SweepPeriod
    BY DEF ServerShape, ServerTypeOK
  <2>1. sweep' \in 0 .. SweepPeriod
    <3>1. sweep < SweepPeriod /\ sweep' = sweep + 1
      BY <1>1
    <3>2. SweepPeriod \in Nat
      BY Facts
    <3> HIDE DEF Inv, Shapes
    <3> QED BY <2>0, <3>1, <3>2
  <2> QED BY <1>1, <1>6, <1>7, <2>1 DEF ServerShape, ServerTypeOK, RoundShape
<1> QED BY <1>1, <1>2, <1>4, <1>7, <1>8, QuietStep

LEMMA SendDownInv ==
  ASSUME Inv, NEW e \in Entry, SendDown(e), ServerKeeps
  PROVE  Inv'
<1> USE DEF Inv, Shapes
<1>k. /\ ClientsQuiet /\ ClientsShape' /\ cNonce' = cNonce /\ cSeen' = cSeen
      /\ channel' = channel /\ pending' = pending /\ reading' = reading
      /\ Running' = Running /\ Reading' = Reading
      /\ restarts' = restarts /\ gone' = gone
  BY ServerKeepsQuiet
<1> DEFINE s == entry[e].ch.cur
           a == entry[e].addr
           left == IF round.todo = {e} THEN NoRound ELSE [round EXCEPT !.todo = @ \ {e}]
<1>1. /\ e \in round.todo /\ round' = left /\ entry' = Kept(entry, clients, taken, left)
      /\ UNCHANGED <<clients, reply, taken, sweep, sSeen, owner, writes, disturbed>>
  BY DEF SendDown
<1>2. /\ left = [pkt |-> left.pkt, todo |-> left.todo]
      /\ left.todo = round.todo \ {e} /\ left.pkt \in DownPacket \cup {None}
      /\ left.todo # {} => left.pkt = round.pkt /\ left.pkt \in DownPacket
  BY <1>1 DEF ServerShape, ServerTypeOK, RoundShape, NoRound
<1> HIDE DEF left
<1>3. /\ entry' \in [Entry -> ClientObject \cup {None}]
      /\ \A f \in Entry :
           /\ entry'[f] \in {entry[f], None}
           /\ (\E b \in Addr : clients[b] = f) \/ taken.entry = f \/ f \in left.todo
                => entry'[f] = entry[f]
  BY <1>1, KeptObjects DEF ServerShape, ServerTypeOK
<1>4. \A f \in Objects' : f \in Objects /\ entry'[f] = entry[f]
  BY <1>3 DEF Objects
<1>5. ObjectsInUse' /\ ObjectsQuiet /\ RoundQuiet
  <2>1. ASSUME NEW b \in Registered'
        PROVE clients'[b] = clients[b] /\ clients'[b] \in Objects'
    <3>1. b \in Addr /\ clients' = clients /\ clients[b] \in Objects
      BY <1>1 DEF ServerShape, ObjectsInUse, Registered
    <3> QED BY <3>1, <1>3 DEF Objects
  <2>2. \A f \in Objects' : KeepsNoOldKey(entry'[f].ch)
    BY <1>4 DEF ServerShape, ObjectsInUse
  <2>3. left.todo \subseteq Objects' /\ (taken # NothingTaken => taken.entry \in Objects')
    BY <1>2, <1>3 DEF ServerShape, ObjectsInUse, Objects
  <2> QED BY <1>1, <1>2, <1>3, <1>4, <2>1, <2>2, <2>3, ObjectsStay DEF ServerShape, ServerTypeOK
<1>e. /\ e \in Objects /\ s \in Sess /\ a \in Addr /\ round.pkt \in DownPacket
      /\ sNonce \in [Sess -> 0 .. MaxCounter + 1]
  BY <1>1, ObjectFields DEF ServerShape, ServerTypeOK, ObjectsInUse, RoundShape
<1>6. ServerShape'
  <2>1. sNonce' \in [Sess -> 0 .. MaxCounter + 1]
    BY <1>e, Facts DEF SendDown
  <2> QED BY <1>1, <1>2, <1>3, <1>5, <2>1 DEF ServerShape, ServerTypeOK, RoundShape
<1>a. CASE ~(sNonce[s] <= MaxCounter)
  <2>1. UNCHANGED <<net, sNonce, sent>>
    BY <1>a DEF SendDown
  <2>2. WireShape' /\ NothingNew
    BY <1>1, <1>k, <2>1 DEF WireShape, NothingNew
  <2> QED BY <1>k, <1>1, <1>5, <1>6, <2>1, <2>2, QuietStep
<1>b. CASE sNonce[s] <= MaxCounter
  <2> DEFINE f == Data("down", a, s, sNonce[s], round.pkt)
             d == [dir |-> "down", addr |-> a, pkt |-> round.pkt]
  <2>1. /\ net' = net \cup {f} /\ sNonce' = [sNonce EXCEPT ![s] = @ + 1]
        /\ sent' = sent \cup {d}
    BY <1>b DEF SendDown, Send
  <2>2. /\ f \in Message /\ f.type = "data" /\ f.dir = "down" /\ f.sess = s
        /\ f.seq = sNonce[s] /\ DatagramOf(f) = d /\ d \in Datagram /\ d \notin sent
        /\ sNonce[s] \in Counter /\ d.dir = "down"
    <3>1. sNonce[s] \in Counter
      BY <1>b, <1>e, Facts DEF Counter
    <3>2. d \notin sent
      BY <1>1 DEF Sealed
    <3> QED BY <1>e, <3>1, <3>2 DEF Data, Message, DatagramOf, Datagram, Packet
  <2>3. /\ Frames' = Frames \cup {f} /\ Responses' = Responses /\ Firsts' = Firsts
    BY <1>1, <2>1, <2>2 DEF Frames, Responses, Firsts
  <2>n. /\ sNonce'[s] = sNonce[s] + 1 /\ \A q \in Sess \ {s} : sNonce'[q] = sNonce[q]
    BY <1>e, <2>1
  <2>w. \A m \in Frames : /\ m.sess \in Sess /\ m.dir \in {"up", "down"}
                          /\ m.seq \in Counter /\ DatagramOf(m) # d
    BY Fields, <2>2 DEF Frames, WireShape, Sealed
  <2>4. WireShape'
    BY <1>1, <1>k, <2>1, <2>2 DEF WireShape
  <2>5. PICK g : g = f
    OBVIOUS
  <2>6. Owners'
    <3>1. owner[s] \in Allowed
      BY <1>e, Facts DEF Owners
    <3>2. \A m \in Frames' : owner'[m.sess] \in Allowed
      BY <1>1, <2>2, <2>3, <3>1 DEF Owners
    <3>3. ASSUME NEW o \in Objects', NEW q \in {entry'[o].ch.cur, entry'[o].ch.prev} \ {NoSession}
          PROVE  owner'[q] \in Allowed
      BY <1>1, <1>4 DEF Owners
    <3> QED BY <1>1, <1>k, <2>3, <3>2, <3>3 DEF Owners
  <2>z. writes[d] = 0
    BY <2>2 DEF HandedUp
  <2>7. Untouched'
    <3>1. \A q : Awaited(q)' <=> Awaited(q)
      BY <1>k, <2>3 DEF Awaited
    <3>2. \A m : DatagramOf(m)' = DatagramOf(m)
      BY DEF DatagramOf
    <3> QED BY <1>k, <1>1, <2>2, <2>3, <2>z, <3>1, <3>2 DEF Untouched
  <2>8. Sealed'
    <3>0. /\ \A m : m.dir = "up" => Nonce(m)' = Nonce(m)
          /\ \A m : m.dir = "down" => Nonce(m)' = sNonce'[m.sess]
      BY <1>k DEF Nonce
    <3>1. \A m \in Frames' : m.seq < Nonce(m)'
      <4>1. ASSUME NEW m \in Frames', m = g PROVE m.seq < Nonce(m)'
        <5>1. m.dir = "down" /\ m.sess = s /\ m.seq = sNonce[s]
          BY <2>2, <2>5, <4>1
        <5> QED BY <5>1, <2>2, <2>n, <3>0 DEF Counter
      <4>2. ASSUME NEW m \in Frames PROVE m.seq < Nonce(m)'
        <5>1. m.seq < Nonce(m)
          BY DEF Sealed
        <5>2. CASE m.dir = "up"
          BY <5>1, <5>2, <3>0
        <5>3. CASE m.dir = "down"
          <6>1. m.seq < sNonce[m.sess] /\ m.seq \in Nat
            BY <5>1, <5>3, <2>w DEF Nonce, Counter
          <6>2. m.seq < sNonce'[m.sess]
            BY <6>1, <2>2, <2>n, <2>w DEF Counter
          <6> QED BY <6>2, <5>3, <3>0
        <5> QED BY <5>2, <5>3, <2>w
      <4> QED BY <2>3, <2>5, <4>1, <4>2
    <3>2. \A m, n \in Frames' : DatagramOf(m) = DatagramOf(n) => m = n
      BY <2>2, <2>3, <2>w DEF Sealed
    <3>3. \A m \in Frames : m.dir = "down" /\ m.sess = s => m.seq # f.seq
      BY <2>2, <2>w DEF Sealed, Nonce, Counter
    <3>4. \A m, n \in Frames' :
             m.dir = n.dir /\ m.sess = n.sess /\ m.seq = n.seq => m = n
      BY <2>2, <2>3, <3>3 DEF Sealed
    <3>5. ASSUME NEW o \in round'.todo
          PROVE  [dir |-> "down", addr |-> entry'[o].addr, pkt |-> round'.pkt] \notin sent'
      <4>1. o \in round.todo /\ o # e /\ round'.pkt = round.pkt /\ o \in left.todo /\ o \in Entry
        BY <1>1, <1>2 DEF ServerShape, ServerTypeOK
      <4>2. entry'[o] = entry[o] /\ entry[o].addr # a
        BY <1>1, <1>3, <4>1 DEF ServerShape, ObjectsInUse
      <4> QED BY <2>1, <4>1, <4>2 DEF Sealed
    <3>6. \A m \in Frames' : DatagramOf(m) \in sent'
      BY <2>1, <2>2, <2>3 DEF Sealed
    <3> QED BY <3>1, <3>2, <3>4, <3>5, <3>6 DEF Sealed, DatagramOf
  <2>9. HandedUp'
    <3>1. \A m : Seen(m)' = Seen(m)
      BY <1>1, <1>k DEF Seen
    <3>2. \A m \in Frames' : writes'[DatagramOf(m)] # 0 => m.seq \in Seen(m)'
      BY <1>1, <2>2, <2>3, <2>z, <3>1 DEF HandedUp
    <3>3. taken # NothingTaken => taken.pkt # d
      BY <2>2 DEF HandedUp
    <3>4. taken' # NothingTaken =>
             \A m \in Frames' : DatagramOf(m) = taken'.pkt => m.seq \in Seen(m)'
      BY <1>1, <2>2, <2>3, <3>1, <3>3 DEF HandedUp
    <3> QED BY <1>1, <2>1, <3>2, <3>4 DEF HandedUp, DatagramOf
  <2> QED BY <1>k, <1>6, <2>4, <2>6, <2>7, <2>8, <2>9
<1> QED BY <1>a, <1>b

-----------------------------------------------------------------------------
LEMMA InitInv == Init => Inv
<1> SUFFICES ASSUME Init PROVE Inv
  OBVIOUS
<1> USE DEF Init, ServerInit, ClientInit
<1>1. /\ Frames = {} /\ Firsts = {} /\ Responses = {} /\ Objects = {} /\ Registered = {}
      /\ Reading = {} /\ Running = {} /\ round.todo = {} /\ round.pkt = None
  BY DEF Frames, Firsts, Responses, Objects, Registered, Reading, Running, NoRound
<1>2. 0 \in Ages /\ 0 \in 0 .. 1 /\ 0 \in 0 .. MaxRestarts /\ 0 \in 0 .. SweepPeriod
      /\ 0 \in 0 .. MaxCounter + 1
  BY Facts DEF Ages
<1>3. WireShape
  BY <1>2 DEF WireShape
<1>4. ServerShape
  <2>1. ServerTypeOK
    BY <1>1, <1>2 DEF ServerTypeOK
  <2> QED BY <1>1, <2>1 DEF ServerShape, ObjectsInUse, RoundShape, NoRound
<1>5. ClientsShape
  <2>1. NewChannel(NoSession) \in Channels(Sess \cup {NoSession})
    BY Facts DEF NewChannel, Channels
  <2>2. ClientTypeOK
    BY <1>2, <2>1 DEF ClientTypeOK
  <2>3. \A c \in Client : ClientShape(c)
    BY DEF ClientShape, KeepsNoOldKey, NewChannel
  <2> QED BY <2>2, <2>3 DEF ClientsShape
<1>6. Owners /\ Sealed /\ HandedUp
  BY <1>1 DEF Owners, Sealed, HandedUp
<1>7. Untouched
  BY <1>1 DEF Untouched, Awaited
<1> QED BY <1>3, <1>4, <1>5, <1>6, <1>7 DEF Inv, Shapes

LEMMA ServerStepInv ==
  ASSUME Inv, ServerStep
  PROVE  Inv'
<1>0. ToServer \subseteq net
  BY DEF ToServer
<1>1. CASE ServerUdpStep
  BY <1>0, <1>1, RefuseHandshakeInv, DecryptDataInv, HandlePingInv, AcceptHandshakeInv,
     SendReplyInv, FinishDataInv DEF ServerUdpStep, ServerReceives, Admit
<1>2. CASE ServerTunStep
  BY <1>2, ReadTunInv, SendDownInv DEF ServerTunStep
<1>3. CASE CleanupStep
  BY <1>3, CleanupInv DEF CleanupStep
<1> QED BY <1>1, <1>2, <1>3 DEF ServerStep

LEMMA StutterInv ==
  ASSUME Inv, UNCHANGED vars
  PROVE  Inv'
BY OnlyNet DEF vars, Inv, Shapes, WireShape

LEMMA NextInv == Inv /\ [Next]_vars => Inv'
BY ClientStepInv, ServerStepInv, TickInv, RestartInv, LoseInv, StrayPingInv, StutterInv
   DEF Next

LEMMA SpecInv == Spec => []Inv
<1>1. Spec => []Inv
  BY InitInv, NextInv, PTL DEF Spec
<1> QED BY <1>1

LEMMA InvTypeOK == Inv => TypeOK
BY DEF Inv, Shapes, WireShape, ServerShape, ClientsShape, TypeOK

(***************************************************************************)
(* Every variable of the tunnel keeps its type.                            *)
(***************************************************************************)
THEOREM TunnelTypes == Spec => []TypeOK
BY SpecInv, InvTypeOK, PTL

(***************************************************************************)
(* Only a key of the allowlist gets a tunnel, and both ends agree on whose *)
(* it is, for any number of clients and whatever the network does: the     *)
(* allowlist check of the server comes before everything else.             *)
(***************************************************************************)
THEOREM TunnelAuthorises == Spec => []OnlyAuthorised
<1>1. Inv => OnlyAuthorised
  <2> SUFFICES ASSUME Inv PROVE OnlyAuthorised
    OBVIOUS
  <2>1. ASSUME NEW c \in Running PROVE c \in Allowed /\ owner[channel[c].cur] = c
    <3>1. channel[c].cur \in {channel[c].cur, channel[c].prev} \ {NoSession}
      BY <2>1, Facts DEF Inv, Shapes, ClientsShape, ClientShape, Running
    <3> QED BY <2>1, <3>1 DEF Inv, Owners
  <2>2. \A m \in net : m.type = "data" => owner[m.sess] \in Allowed
    BY DEF Inv, Owners, Frames
  <2> QED BY <2>1, <2>2 DEF OnlyAuthorised
<1> QED BY <1>1, SpecInv, PTL

(* What each step is to the two TUN devices: most are nothing, sealing a frame
   is a Send, and a write is a Deliver. *)
LEMMA ClientDelivers ==
  ASSUME Inv, NEW c \in Client, ClientStep(c)
  PROVE  AtMostOnce!Next \/ UNCHANGED <<sent, writes>>
<1> USE DEF Inv, Shapes
<1>1. ASSUME NEW p \in UpPacket, SendUp(c, p) PROVE AtMostOnce!Next
  <2> DEFINE d == [dir |-> "up", addr |-> addr[c], pkt |-> p]
  <2>1. addr[c] \in Addr
    BY <1>1 DEF SendUp, ClientsShape, ClientShape
  <2>2. d \in Datagram /\ d \notin sent
    BY <1>1, <2>1 DEF Datagram, Packet, SendUp, Unread
  <2>3. sent' = sent \cup {d} /\ writes' = writes
    BY <1>1 DEF SendUp
  <2> QED BY <2>2, <2>3 DEF AtMostOnce!Next, AtMostOnce!Send
<1>2. ASSUME NEW m \in ToClient(addr[c]), ReceiveData(c, m)
      PROVE  AtMostOnce!Next \/ UNCHANGED <<sent, writes>>
  <2>1. CASE ~Accepts(channel[c], cSeen, m)
    BY <1>2, <2>1 DEF ReceiveData
  <2>2. CASE Accepts(channel[c], cSeen, m)
    <3>1. m \in Frames /\ m.dir = "down" /\ DatagramOf(m) \in Datagram
      <4>1. m \in net /\ m.type = "data" /\ m.dir # "up"
        BY <1>2 DEF ToClient, ToServer, ReceiveData
      <4> QED BY <4>1, Fields DEF Frames, WireShape
    <3>2. m.seq \notin cSeen[m.sess]
      BY <2>2 DEF Accepts, Opens, Fresh
    <3>3. writes[DatagramOf(m)] = 0 /\ DatagramOf(m) \in sent
      BY <3>1, <3>2 DEF HandedUp, Seen, Sealed
    <3>4. writes' = [writes EXCEPT ![DatagramOf(m)] = 1] /\ sent' = sent
      BY <1>2, <2>2, <3>3 DEF ReceiveData, TunWrite
    <3> QED BY <3>1, <3>3, <3>4 DEF AtMostOnce!Next, AtMostOnce!Deliver
  <2> QED BY <2>1, <2>2
<1>3. ASSUME NEW m \in net,
             \/ FinishHandshake(c, m) \/ FailHandshake(c, m)
             \/ ReadResponse(c, m) \/ IgnoreResponse(c, m)
      PROVE  UNCHANGED <<sent, writes>>
  BY <1>3 DEF FinishHandshake, FailHandshake, ReadResponse, IgnoreResponse
<1>4. CASE MainStep(c) \/ RekeyStep(c) \/ KeepAliveStep(c)
  BY <1>4 DEF MainStep, Start, Stop, RekeyStep, StartRehandshake, KeepAliveStep, KeepAlive
<1>5. CASE ClientTunStep(c)
  BY <1>1, <1>5 DEF ClientTunStep
<1>6. CASE ClientUdpStep(c)
  <2>1. CASE CompleteRehandshake(c)
    BY <2>1 DEF CompleteRehandshake
  <2>2. CASE \E m \in ToClient(addr[c]) : ClientReceives(c, m)
    BY <1>2, <1>3, <2>2 DEF ClientReceives, ToClient
  <2> QED BY <1>6, <2>1, <2>2 DEF ClientUdpStep
<1> QED BY <1>4, <1>5, <1>6 DEF ClientStep

LEMMA ServerDelivers ==
  ASSUME Inv, ServerStep
  PROVE  AtMostOnce!Next \/ UNCHANGED <<sent, writes>>
<1> USE DEF Inv, Shapes
<1>1. ASSUME FinishData PROVE AtMostOnce!Next
  <2> DEFINE d == taken.pkt
  <2>1. d \in Datagram /\ d \in sent /\ writes[d] = 0
    BY <1>1 DEF FinishData, HandedUp, ServerShape, ServerTypeOK
  <2>2. writes' = [writes EXCEPT ![d] = 1] /\ sent' = sent
    BY <1>1, <2>1 DEF FinishData, TunWrite
  <2> QED BY <2>1, <2>2 DEF AtMostOnce!Next, AtMostOnce!Deliver
<1>2. ASSUME NEW e \in Entry, SendDown(e)
      PROVE  AtMostOnce!Next \/ UNCHANGED <<sent, writes>>
  <2> DEFINE s == entry[e].ch.cur
             d == [dir |-> "down", addr |-> entry[e].addr, pkt |-> round.pkt]
  <2>1. e \in round.todo /\ writes' = writes
    BY <1>2 DEF SendDown
  <2>2. e \in Objects /\ entry[e].addr \in Addr /\ round.pkt \in DownPacket
    BY <2>1, ObjectFields DEF ServerShape, ObjectsInUse, RoundShape
  <2>3. d \in Datagram /\ d \notin sent
    BY <2>1, <2>2 DEF Datagram, Packet, Sealed
  <2>4. sent' = sent \/ sent' = sent \cup {d}
    BY <1>2 DEF SendDown
  <2> QED BY <2>1, <2>3, <2>4 DEF AtMostOnce!Next, AtMostOnce!Send
<1>3. ASSUME NEW m \in net, ServerReceives(m) \/ Admit(m)
      PROVE  UNCHANGED <<sent, writes>>
  BY <1>3 DEF ServerReceives, Admit, RefuseHandshake, DecryptData, DropData, HandlePing,
              AcceptHandshake
<1>4. CASE ServerUdpStep
  BY <1>1, <1>3, <1>4 DEF ServerUdpStep, SendReply, ToServer
<1>5. CASE ServerTunStep
  BY <1>2, <1>5 DEF ServerTunStep, ReadTun
<1>6. CASE CleanupStep
  BY <1>6 DEF CleanupStep, CleanupClients
<1> QED BY <1>4, <1>5, <1>6 DEF ServerStep

(***************************************************************************)
(* The tunnel implements an at-most-once datagram service between the TUN  *)
(* devices, whatever is lost, duplicated and reordered, and through        *)
(* rekeying, removed and returning clients and restarts of both ends       *)
(* (Channel.Encrypt and Decrypt as the two main programs use them).        *)
(***************************************************************************)
THEOREM TunnelDelivers == Spec => DeliverySpec
<1>1. Init => AtMostOnce!Init
  BY DEF Init, AtMostOnce!Init
<1>2. Inv /\ [Next]_vars => [AtMostOnce!Next]_<<sent, writes>>
  <2> SUFFICES ASSUME Inv, [Next]_vars
               PROVE  AtMostOnce!Next \/ UNCHANGED <<sent, writes>>
    OBVIOUS
  <2>1. CASE \E c \in Client : ClientStep(c)
    BY <2>1, ClientDelivers
  <2>2. CASE ServerStep
    BY <2>2, ServerDelivers
  <2>3. CASE Tick \/ Restart \/ UNCHANGED vars
    BY <2>3 DEF Tick, Restart, ServerRestart, vars
  <2>4. CASE (\E m \in net : Lose(m)) \/ (\E a \in Addr : StrayPing(a))
    BY <2>4 DEF Lose, StrayPing
  <2> QED BY <2>1, <2>2, <2>3, <2>4 DEF Next
<1> QED BY <1>1, <1>2, SpecInv, PTL DEF Spec, DeliverySpec, AtMostOnce!Spec

=============================================================================
