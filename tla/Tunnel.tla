------------------------------- MODULE Tunnel -------------------------------
(***************************************************************************)
(* The whole tunnel: the clients (VpnClient), the server (VpnServer) and   *)
(* the network between them (Wire).  Its steps are the steps of the        *)
(* goroutines of both programs, the passing of time, restarts of the       *)
(* server, and what the network does with datagrams on its own.            *)
(***************************************************************************)
EXTENDS VpnServer, VpnClient

CONSTANTS
    Patient,       \* the timers are longer than anything under way takes
    Recycle,       \* an identity nothing refers to any more may be used again
    MaxRestarts    \* bound on the restarts of the server

ASSUME TunnelAssumption ==
    /\ Patient \in BOOLEAN /\ Recycle \in BOOLEAN
    /\ Patient => "duplicate" \notin Faults
    /\ MaxRestarts \in Nat

VARIABLES
    restarts,      \* the number of restarts of the server
    gone           \* history: ticks since a process used the address of an entry

vars == <<net, sent, writes, disturbed, serverVars, clientVars, restarts, gone>>

Running == {c \in Client : phase[c] = "running"}
Reading == {c \in Client : reading[c] # None}

\* The sessions that are not available for a new handshake: all that were made,
\* or those somebody still holds or some message still names.
SessInUse ==
    IF ~Recycle THEN {s \in Sess : owner[s] # None} ELSE
    {m.sess : m \in {n \in net : n.type \in {"msg2", "data"}}}
    \cup (IF reply = None THEN {} ELSE {reply.sess})
    \cup (UNION {Held(entry[e].ch) : e \in {d \in Entry : entry[d] # None}})
    \cup (UNION {Held(channel[c]) : c \in Client})
    \cup {reading[c].sess : c \in Reading}

IniInUse ==
    {m.ini : m \in Handshakes}
    \cup (IF reply = None THEN {} ELSE {reply.ini})
    \cup {pending[c] : c \in Client} \cup {reading[c].ini : c \in Reading}

\* Nothing is under way between the server and address a: no datagram, and no
\* goroutine in the middle of one.
QuietAt(a) ==
    /\ \A m \in net : m.addr # a
    /\ reply # None => reply.addr # a
    /\ taken # NothingTaken => taken.pkt.addr # a
    /\ \A e \in round.todo : entry[e].addr # a
    /\ \A c \in Client : addr[c] = a => phase[c] = "running" /\ reading[c] = None

Quiet == \A a \in Addr : QuietAt(a)

\* When Patient, the tickers of a client fire, and its port is used again, only
\* when nothing is under way there; the clocks advance when nothing is anywhere.
Due(a) == Patient => QuietAt(a)
AllDue == Patient => Quiet

\* The addresses clients have used since their last tick are not gone.
Used == gone' = [a \in Addr |-> IF \E c \in Client : addr'[c] = a THEN 0 ELSE gone[a]]

Init ==
    /\ net = {}
    /\ sent = {}
    /\ writes = [d \in Datagram |-> 0]
    /\ disturbed = FALSE
    /\ restarts = 0
    /\ gone = [a \in Addr |-> 0]
    /\ ServerInit
    /\ ClientInit

\* The steps of client c, by goroutine: main, rekeyLoop, keepAlive, handleTUN
\* and handleUDP.
ClientKeeps == UNCHANGED <<serverVars, restarts>> /\ Used

MainStep(c) ==
    /\ \/ \E a \in Addr, i \in Free(Ini, IniInUse) : Due(a) /\ Start(c, a, i)
       \/ Stop(c)
    /\ ClientKeeps
RekeyStep(c) ==
    /\ Due(addr[c])
    /\ \E i \in Free(Ini, IniInUse) : StartRehandshake(c, i)
    /\ ClientKeeps
KeepAliveStep(c) == Due(addr[c]) /\ KeepAlive(c) /\ ClientKeeps
ClientTunStep(c) == (\E p \in UpPacket : SendUp(c, p)) /\ ClientKeeps
ClientUdpStep(c) ==
    /\ CompleteRehandshake(c) \/ \E m \in ToClient(addr[c]) : ClientReceives(c, m)
    /\ ClientKeeps

ClientStep(c) ==
    \/ MainStep(c) \/ RekeyStep(c) \/ KeepAliveStep(c) \/ ClientTunStep(c)
    \/ ClientUdpStep(c)

\* The steps of the server: handleUDP, handleTUN and cleanupClients.
ServerKeeps == UNCHANGED <<clientVars, restarts, gone>>

Admit(m) == \E s \in Free(Sess, SessInUse) : AcceptHandshake(m, s)

ServerUdpStep ==
    /\ \/ \E m \in ToServer : ServerReceives(m) \/ Admit(m)
       \/ SendReply
       \/ FinishData
    /\ ServerKeeps
ServerTunStep ==
    /\ (\E p \in DownPacket : ReadTun(p)) \/ (\E e \in Entry : SendDown(e))
    /\ ServerKeeps
CleanupStep == AllDue /\ CleanupClients /\ ServerKeeps

ServerStep == ServerUdpStep \/ ServerTunStep \/ CleanupStep

Tick ==
    /\ AllDue
    /\ ServerTick
    /\ ClientTick
    /\ gone' = [a \in Addr |-> IF a \in Registered /\ \A c \in Client : addr[c] # a
                               THEN Older(gone[a]) ELSE 0]
    /\ UNCHANGED <<net, sent, writes, disturbed, restarts>>

Restart ==
    /\ restarts < MaxRestarts
    /\ restarts' = restarts + 1
    /\ ServerRestart
    /\ UNCHANGED <<clientVars, gone>>

\* A datagram is lost: by a fault of the network, at an address without a
\* process, or (a bound of the model) when no session is left for a handshake.
Lose(m) ==
    /\ \/ "lose" \in Faults
       \/ m \notin ToServer /\ \A c \in Client : addr[c] # m.addr
       \/ m.type = "msg1" /\ Sess \subseteq SessInUse
    /\ net' = net \ {m}
    /\ disturbed' = (disturbed \/ (m.type = "msg2" /\ "lose" \in Faults))
    /\ UNCHANGED <<sent, writes, serverVars, clientVars, restarts, gone>>

\* Somebody sends a ping datagram that carries address a as its source.
StrayPing(a) ==
    /\ "stray" \in Faults
    /\ Send(Ping(a))
    /\ UNCHANGED <<sent, writes, disturbed, serverVars, clientVars, restarts, gone>>

Next ==
    \/ \E c \in Client : ClientStep(c)
    \/ ServerStep
    \/ Tick
    \/ Restart
    \/ \E m \in net : Lose(m)
    \/ \E a \in Addr : StrayPing(a)

Spec == Init /\ [][Next]_vars

\* The goroutines run whenever they can, the tickers keep firing, and a datagram
\* that is sent again and again gets through now and then.
Fairness ==
    /\ WF_vars(ServerUdpStep)
    /\ WF_vars(CleanupStep)
    /\ SF_vars(Tick)
    /\ WF_vars(\E m \in net : Lose(m))
    /\ SF_vars((\E m \in ToServer : Admit(m)) /\ ServerKeeps)
    /\ \A c \in Client :
         /\ WF_vars(ClientUdpStep(c))
         /\ SF_vars(RekeyStep(c))
         /\ SF_vars((\E m \in ToClient(addr[c]) : ReadResponse(c, m)) /\ ClientKeeps)

FairSpec == Spec /\ Fairness

-----------------------------------------------------------------------------

(***************************************************************************)
(* Every variable keeps its type.                                          *)
(***************************************************************************)
TypeOK ==
    /\ net \subseteq Message
    /\ sent \subseteq Datagram
    /\ writes \in [Datagram -> 0 .. 1]
    /\ disturbed \in BOOLEAN
    /\ ServerTypeOK
    /\ ClientTypeOK
    /\ restarts \in 0 .. MaxRestarts
    /\ gone \in [Addr -> Ages]

(***************************************************************************)
(* End to end, the tunnel is an at-most-once datagram service: a packet    *)
(* reaches the TUN device of the other end only if the first end sealed it *)
(* for that path, and once, through duplication, reordering, rekeying,     *)
(* removed and returning clients and restarts of both ends.                *)
(***************************************************************************)
AtMostOnce == INSTANCE Delivery
DeliverySpec == AtMostOnce!Spec

(***************************************************************************)
(* Only a key of the allowlist gets a tunnel, and both ends agree on whose *)
(* it is: a running client is allowed and uses a session the server        *)
(* negotiated with its key, and no data is sealed for anybody else         *)
(* (server main.go: the allowlist check before a client is registered).    *)
(***************************************************************************)
OnlyAuthorised ==
    /\ \A c \in Running : c \in Allowed /\ owner[channel[c].cur] = c
    /\ \A m \in net : m.type = "data" => owner[m.sess] \in Allowed

\* The two ends of the tunnel of c use the same session.
InSync(c) ==
    /\ phase[c] = "running"
    /\ addr[c] \in Registered
    /\ entry[clients[addr[c]]].ch.cur = channel[c].cur

(***************************************************************************)
(* Whenever nothing is under way between a running client and the server,  *)
(* the two use the same session: the server rotates before it answers and  *)
(* the client when it reads the answer, and after both, or when a client   *)
(* has come back from the same address, they are at the same session.      *)
(* A lost or refused first message leaves both where they were; "disturbed"*)
(* excludes what does not: a lost response, an idle client removed, and a  *)
(* restart of the server.                                                  *)
(***************************************************************************)
SettledInSync ==
    ~disturbed => \A c \in Running : QuietAt(addr[c]) => InSync(c)

(***************************************************************************)
(* Rekeying does not interrupt what a client sends: every frame it has     *)
(* sealed under a session it still holds, also one the server has replaced *)
(* already, opens at the server whenever it arrives (README.md: key        *)
(* rotation does not break traffic, packets in flight still decrypt),      *)
(* unless a frame of that session a whole window ahead has overtaken it.   *)
(***************************************************************************)
Overtaken(m) == \E n \in sSeen[m.sess] : n - m.seq >= Window

UplinkOpen ==
    ~disturbed => \A c \in Running : \A m \in ToServer :
        m.type = "data" /\ m.addr = addr[c] /\ m.sess \in Held(channel[c]) /\ ~Overtaken(m)
          => ServerAccepts(m)

(***************************************************************************)
(* The same for what the server sends: while it runs, a client hands up    *)
(* every frame that reaches it.                                            *)
(***************************************************************************)
DownlinkOpen ==
    [][~disturbed =>
         \A c \in Running : \A m \in ToClient(addr[c]) \ net' :
            m.type = "data" /\ phase'[c] = "running"
              => writes'[DatagramOf(m)] > writes[DatagramOf(m)]]_vars

(***************************************************************************)
(* Completing a rehandshake clears the pending initiator that the response *)
(* answered and no other (client main.go: "pending holds an in-progress    *)
(* periodic rehandshake awaiting the server's response").                  *)
(***************************************************************************)
PendingAwaits ==
    [][\A c \in Reading : reading'[c] = None /\ phase'[c] = "running"
          => pending[c] = reading[c].ini]_vars

(***************************************************************************)
(* A dead client is removed: an address no process has used for the idle   *)
(* limit and one sweep is not in the table any more (server main.go:       *)
(* "spoofed/garbage traffic cannot keep a dead client alive").             *)
(***************************************************************************)
DeadClientsLeave ==
    \A a \in Registered : gone[a] <= IdleLimit + SweepPeriod

(***************************************************************************)
(* A client that keeps running gets back into step with the server again   *)
(* and again, whatever was lost and although the server may have lost its  *)
(* table: the periodic rehandshake registers it anew.                      *)
(***************************************************************************)
Recovers == \A c \in Client : []<>(phase[c] = "running" => InSync(c))

=============================================================================
