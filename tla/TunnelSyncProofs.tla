-------------------------- MODULE TunnelSyncProofs --------------------------
(***************************************************************************)
(* Proofs about the two ends of a tunnel when the timers are longer than   *)
(* anything under way takes (Patient): they stay in step, what a client    *)
(* sends opens at the server through every rekey, and a dead client leaves *)
(* the table.  For any number of clients, addresses, sessions and packets. *)
(***************************************************************************)
EXTENDS TunnelProofs

(***************************************************************************)
(* One process at a time has an address, and at that address at most one   *)
(* handshake is under way: the one its client awaits.                      *)
(***************************************************************************)
OwnAddress ==
    /\ \A c \in Client : phase[c] = "down" => addr[c] = None
    /\ \A c, d \in Client : addr[c] = addr[d] /\ addr[c] # None => c = d

HandshakesAt(a) == {m \in Firsts \cup Responses : m.addr = a}

OneHandshakeOf(c) ==
    phase[c] # "down" =>
       /\ \A m \in HandshakesAt(addr[c]) : m.ini = pending[c] /\ reading[c] = None
       /\ \A m, n \in HandshakesAt(addr[c]) : m = n

OneHandshake ==
    /\ \A c \in Client : OneHandshakeOf(c)
    /\ reply # None => reply \notin net

(***************************************************************************)
(* No frame under way was accepted before, and a client counts on from     *)
(* where the server has seen it.                                           *)
(***************************************************************************)
Unseen ==
    /\ \A m \in Frames : m.dir = "up" => m.seq \notin sSeen[m.sess]
    /\ \A s \in Sess : Awaited(s) => sSeen[s] = {}
    /\ \A c \in Running : \A s \in {channel[c].cur, channel[c].prev} \ {NoSession} :
         \A n \in sSeen[s] : n < cNonce[s]
    /\ \A c \in Running : channel[c].cur # channel[c].prev

(***************************************************************************)
(* The two ends.  The server is ahead of a client by the session offered   *)
(* to it, if there is one, and then has kept the client's current session  *)
(* for the whole grace; else both have the same sessions, for the same     *)
(* time.  What a client sealed before it asked for a new session has       *)
(* arrived by then.                                                        *)
(***************************************************************************)
Offered(c) ==
    {s \in Sess : \/ \E m \in Responses : m.addr = addr[c] /\ m.sess = s
                  \/ reading[c] # None /\ reading[c].sess = s}

ServerEnd(c) == entry[clients[addr[c]]].ch

SameSessions(c) ==
    /\ ServerEnd(c).cur = channel[c].cur
    /\ channel[c].left > 0 =>
         ServerEnd(c).prev = channel[c].prev /\ ServerEnd(c).left = channel[c].left

Ahead(c) ==
    /\ ServerEnd(c).prev = channel[c].cur
    /\ ServerEnd(c).left = Grace

OnlyCurrent(c) ==
    \A m \in Frames :
       m.dir = "up" /\ m.addr = addr[c] /\ m.sess \in Held(channel[c])
         => m.sess = channel[c].cur

InStepWith(c) ==
    /\ phase[c] # "down" =>
         \A s \in Offered(c) : addr[c] \in Registered /\ ServerEnd(c).cur = s
    /\ phase[c] = "running" =>
         /\ addr[c] \in Registered
         /\ Offered(c) = {} => SameSessions(c)
         /\ Offered(c) # {} => Ahead(c)
         /\ Offered(c) # {} \/ HandshakesAt(addr[c]) # {} => OnlyCurrent(c)

InStep == \A c \in Client : InStepWith(c)

SyncInv == OwnAddress /\ OneHandshake /\ Unseen /\ (~disturbed => InStep)

(***************************************************************************)
(* An address without a process: nothing of it is left under way, and its  *)
(* entry has been silent for as long; a sweep leaves no entry that has     *)
(* been silent for too long.                                               *)
(***************************************************************************)
Abandoned ==
    \A a \in Addr : gone[a] > 0 =>
       /\ \A c \in Client : addr[c] # a
       /\ \A m \in ToServer : m.addr # a
       /\ taken # NothingTaken => taken.pkt.addr # a
       /\ a \in Registered => gone[a] <= entry[clients[a]].idle

Swept == \A a \in Registered : entry[clients[a]].idle <= IdleLimit + sweep

GoneInv == Abandoned /\ Swept

-----------------------------------------------------------------------------
(* Dead clients leave.                                                      *)

(* What a client sends carries its own address. *)
LEMMA ClientSends ==
  ASSUME Inv, NEW c \in Client, ClientStep(c)
  PROVE  /\ UNCHANGED serverVars /\ Used
         /\ \A m \in net' : m \in net \/ m.addr = addr'[c]
<1> USE DEF Inv, Shapes, ClientsShape, ClientTypeOK
<1>1. UNCHANGED serverVars /\ Used
  BY DEF ClientStep, MainStep, RekeyStep, KeepAliveStep, ClientTunStep, ClientUdpStep,
         ClientKeeps
<1>2. ASSUME NEW a \in Addr, NEW i \in Ini, Start(c, a, i)
      PROVE  \A m \in net' : m \in net \/ m.addr = addr'[c]
  BY <1>2 DEF Start, Send, Msg1
<1>3. ASSUME NEW i \in Ini, StartRehandshake(c, i)
      PROVE  \A m \in net' : m \in net \/ m.addr = addr'[c]
  BY <1>3 DEF StartRehandshake, Send, Msg1
<1>4. ASSUME KeepAlive(c)
      PROVE  \A m \in net' : m \in net \/ m.addr = addr'[c]
  BY <1>4 DEF KeepAlive, Send, Ping, clientVars
<1>5. ASSUME NEW p \in UpPacket, SendUp(c, p)
      PROVE  \A m \in net' : m \in net \/ m.addr = addr'[c]
  BY <1>5 DEF SendUp, Send, Data
<1>6. ASSUME Stop(c) \/ CompleteRehandshake(c)
      PROVE  net' \subseteq net
  BY <1>6 DEF Stop, CompleteRehandshake
<1>7. ASSUME NEW m \in ToClient(addr[c]), ClientReceives(c, m)
      PROVE  net' \subseteq net
  BY <1>7, ReceiveShrinks DEF ToClient, ClientReceives, FinishHandshake, FailHandshake,
                              ReadResponse, IgnoreResponse, ReceiveData
<1>8. CASE MainStep(c)
  BY <1>1, <1>2, <1>6, <1>8 DEF MainStep, Free
<1>9. CASE RekeyStep(c)
  BY <1>1, <1>3, <1>9 DEF RekeyStep, Free
<1>10. CASE KeepAliveStep(c) \/ ClientTunStep(c)
  BY <1>1, <1>4, <1>5, <1>10 DEF KeepAliveStep, ClientTunStep
<1>11. CASE ClientUdpStep(c)
  BY <1>1, <1>6, <1>7, <1>11 DEF ClientUdpStep
<1> QED BY <1>8, <1>9, <1>10, <1>11 DEF ClientStep

(* A step that renews lastSeen only where a process may still be heard of. *)
LEMMA GoneQuiet ==
  ASSUME Inv, GoneInv,
         \A a \in Addr : gone'[a] > 0 => gone'[a] = gone[a] /\ \A c \in Client : addr'[c] # a,
         \A m \in ToServer' : m \in ToServer \/ \E c \in Client : addr'[c] = m.addr,
         \/ taken' \in {taken, NothingTaken}
         \/ \E m \in ToServer : taken'.pkt.addr = m.addr,
         \A a \in Registered' :
            \/ a \in Registered /\ entry'[clients'[a]].idle = entry[clients[a]].idle
            \/ entry'[clients'[a]].idle = 0 /\ gone[a] = 0,
         sweep' = sweep
  PROVE  GoneInv'
<1> USE DEF Inv, Shapes, GoneInv
<1>0. /\ \A a \in Addr : gone[a] \in Nat /\ sweep \in Nat /\ IdleLimit \in Nat
  BY Facts DEF WireShape, Ages, ServerShape, ServerTypeOK
<1>1. ASSUME NEW a \in Addr, gone'[a] > 0
      PROVE  /\ \A c \in Client : addr'[c] # a
             /\ \A m \in ToServer' : m.addr # a
             /\ taken' # NothingTaken => taken'.pkt.addr # a
             /\ a \in Registered' => gone'[a] <= entry'[clients'[a]].idle
  <2>1. gone'[a] = gone[a] /\ gone[a] > 0
    BY <1>1
  <2>2. /\ \A c \in Client : addr'[c] # a
        /\ \A m \in ToServer : m.addr # a
        /\ taken # NothingTaken => taken.pkt.addr # a
        /\ a \in Registered => gone[a] <= entry[clients[a]].idle
    BY <1>1, <2>1 DEF Abandoned
  <2>3. \A m \in ToServer' : m.addr # a
    BY <2>2
  <2>4. taken' # NothingTaken => taken'.pkt.addr # a
    BY <2>2
  <2>5. ASSUME a \in Registered' PROVE gone'[a] <= entry'[clients'[a]].idle
    BY <2>1, <2>2, <2>5, <1>0
  <2> QED BY <2>2, <2>3, <2>4, <2>5
<1>2. ASSUME NEW a \in Registered' PROVE entry'[clients'[a]].idle <= IdleLimit + sweep'
  BY <1>0, <1>2 DEF Swept, Registered
<1> QED BY <1>1, <1>2 DEF Abandoned, Swept

LEMMA ClientGone ==
  ASSUME Inv, GoneInv, NEW c \in Client, ClientStep(c)
  PROVE  GoneInv'
<1>1. /\ UNCHANGED serverVars /\ Used
      /\ \A m \in net' : m \in net \/ m.addr = addr'[c]
  BY ClientSends
<1>2. \A a \in Addr : gone'[a] > 0 => gone'[a] = gone[a] /\ \A d \in Client : addr'[d] # a
  BY <1>1 DEF Used
<1>3. \A m \in ToServer' : m \in ToServer \/ \E d \in Client : addr'[d] = m.addr
  BY <1>1 DEF ToServer
<1>4. /\ taken' = taken /\ sweep' = sweep
      /\ \A a \in Registered' :
            a \in Registered /\ entry'[clients'[a]].idle = entry[clients[a]].idle
  BY <1>1 DEF serverVars, Registered
<1> QED BY <1>2, <1>3, <1>4, GoneQuiet

(* The address of a message to the server is not abandoned. *)
LEMMA HeardOf ==
  ASSUME Inv, GoneInv, NEW a \in Addr,
         (\E m \in ToServer : m.addr = a) \/ (taken # NothingTaken /\ taken.pkt.addr = a)
  PROVE  gone[a] = 0
<1>1. gone[a] \in Nat /\ ~(gone[a] > 0)
  BY Facts DEF Inv, Shapes, WireShape, Ages, GoneInv, Abandoned
<1> QED BY <1>1

(* The table after lastSeen of one object, or of none, was renewed. *)
LEMMA RenewedOnly ==
  ASSUME Inv, NEW o \in Objects, clients' = clients,
         \A a \in Registered : entry'[clients[a]] = Renewed(o)[clients[a]]
  PROVE  \A a \in Registered' :
            /\ a \in Registered
            /\ \/ entry'[clients'[a]].idle = entry[clients[a]].idle
               \/ entry'[clients'[a]].idle = 0 /\ entry[o].addr = a
<1>0. Renewed(o)[o] = [addr |-> entry[o].addr, ch |-> entry[o].ch, idle |-> 0]
  BY SeenAgain
<1>1. Renewed(o)[o].idle = 0 /\ \A e \in Entry \ {o} : Renewed(o)[e] = entry[e]
  BY <1>0, SeenAgain
<1>2. ASSUME NEW a \in Registered'
      PROVE  /\ a \in Registered
             /\ \/ entry'[clients'[a]].idle = entry[clients[a]].idle
                \/ entry'[clients'[a]].idle = 0 /\ entry[o].addr = a
  <2>1. a \in Registered /\ clients'[a] = clients[a]
    BY DEF Registered
  <2>2. clients[a] \in Entry /\ entry[clients[a]].addr = a
    BY <2>1 DEF Inv, Shapes, ServerShape, ObjectsInUse, Objects
  <2>3. CASE clients[a] = o
    BY <1>1, <2>1, <2>2, <2>3
  <2>4. CASE clients[a] # o
    BY <1>1, <2>1, <2>2, <2>4
  <2> QED BY <2>1, <2>3, <2>4
<1> QED BY <1>2

LEMMA HandlePingGone ==
  ASSUME Inv, GoneInv, NEW m \in ToServer, HandlePing(m), ServerKeeps
  PROVE  GoneInv'
<1>1. /\ m \in net /\ net' \subseteq net /\ m.addr \in Addr
      /\ UNCHANGED <<clients, taken, sweep, gone, addr>>
  BY ReceiveShrinks, Fields
     DEF HandlePing, ServerKeeps, clientVars, ToServer, Inv, Shapes, WireShape
<1>2. gone[m.addr] = 0
  BY <1>1, HeardOf
<1>3. ASSUME NEW a \in Registered'
      PROVE  \/ a \in Registered /\ entry'[clients'[a]].idle = entry[clients[a]].idle
             \/ entry'[clients'[a]].idle = 0 /\ gone[a] = 0
  <2>1. CASE m.addr \in Registered
    <3>1. PICK o \in Objects : o = clients[m.addr] /\ entry[o].addr = m.addr
      BY <2>1 DEF Inv, Shapes, ServerShape, ObjectsInUse
    <3>2. entry' = Renewed(o)
      BY <2>1, <3>1 DEF HandlePing, Renewed
    <3> QED BY <1>1, <1>2, <1>3, <3>1, <3>2, RenewedOnly
  <2>2. CASE m.addr \notin Registered
    BY <1>1, <1>3, <2>2 DEF HandlePing, Registered
  <2> QED BY <2>1, <2>2
<1>4. \A a \in Addr : gone'[a] > 0 => gone'[a] = gone[a] /\ \A c \in Client : addr'[c] # a
  BY <1>1 DEF GoneInv, Abandoned
<1>5. \A n \in ToServer' : n \in ToServer
  BY <1>1 DEF ToServer
<1> QED BY <1>1, <1>3, <1>4, <1>5, GoneQuiet

LEMMA FinishDataGone ==
  ASSUME Inv, GoneInv, FinishData, ServerKeeps
  PROVE  GoneInv'
<1>1. /\ taken # NothingTaken /\ taken' = NothingTaken
      /\ UNCHANGED <<net, clients, sweep, round, gone, addr>>
  BY DEF FinishData, ServerKeeps, clientVars
<1>2. PICK o \in Objects : o = taken.entry /\ entry[o].addr = taken.pkt.addr
  BY <1>1 DEF Inv, Shapes, ServerShape, ObjectsInUse
<1>3. gone[entry[o].addr] = 0
  BY <1>1, <1>2, HeardOf, ObjectFields
<1>4. entry' = Kept(Renewed(o), clients, NothingTaken, round)
  BY <1>2 DEF FinishData, Renewed
<1>5. \A a \in Registered : entry'[clients[a]] = Renewed(o)[clients[a]]
  <2>1. Renewed(o) \in [Entry -> ClientObject \cup {None}]
    BY SeenAgain
  <2>2. \A a \in Registered : a \in Addr /\ clients[a] \in Entry
    BY DEF Registered, Inv, Shapes, ServerShape, ServerTypeOK
  <2>3. \A e \in Entry : (\E a \in Addr : clients[a] = e) => entry'[e] = Renewed(o)[e]
    BY <1>4, <2>1, KeptObjects
  <2> QED BY <2>2, <2>3
<1>6. ASSUME NEW a \in Registered'
      PROVE  \/ a \in Registered /\ entry'[clients'[a]].idle = entry[clients[a]].idle
             \/ entry'[clients'[a]].idle = 0 /\ gone[a] = 0
  BY <1>1, <1>3, <1>5, <1>6, RenewedOnly
<1>7. \A a \in Addr : gone'[a] > 0 => gone'[a] = gone[a] /\ \A c \in Client : addr'[c] # a
  BY <1>1 DEF GoneInv, Abandoned
<1>8. \A n \in ToServer' : n \in ToServer
  BY <1>1 DEF ToServer
<1> QED BY <1>1, <1>6, <1>7, <1>8, GoneQuiet

LEMMA AcceptGone ==
  ASSUME Inv, GoneInv, NEW m \in ToServer, Admit(m), ServerKeeps
  PROVE  GoneInv'
<1>1. PICK s \in Sess : AcceptHandshake(m, s)
  BY DEF Admit, Free
<1>2. /\ m \in net /\ net' \subseteq net /\ m.addr \in Addr /\ Register(m.addr, s)
      /\ UNCHANGED <<taken, sweep, gone, addr>>
  BY <1>1, ReceiveShrinks, Fields
     DEF AcceptHandshake, ServerKeeps, clientVars, ToServer, Inv, Shapes, WireShape
<1>3. gone[m.addr] = 0
  BY <1>2, HeardOf
<1>4. PICK o \in Entry :
            /\ clients' = [clients EXCEPT ![m.addr] = o]
            /\ \A e \in Entry \ {o} : entry'[e] = entry[e]
            /\ entry'[o].idle = 0
            /\ o \notin Objects \/ clients[m.addr] = o
  BY <1>2, RegisterEffect
<1>5. ASSUME NEW a \in Registered'
      PROVE  \/ a \in Registered /\ entry'[clients'[a]].idle = entry[clients[a]].idle
             \/ entry'[clients'[a]].idle = 0 /\ gone[a] = 0
  <2> USE DEF Inv, Shapes, ServerShape
  <2>1. CASE a = m.addr
    BY <1>2, <1>3, <1>4, <2>1 DEF ServerTypeOK
  <2>2. CASE a # m.addr
    <3>1. a \in Registered /\ clients'[a] = clients[a]
      BY <1>4, <1>5, <2>2 DEF ServerTypeOK, Registered
    <3>2. clients[a] \in Objects /\ entry[clients[a]].addr = a
      BY <3>1 DEF ObjectsInUse
    <3>3. clients[a] # o
      <4>1. CASE clients[m.addr] = o
        <5>1. m.addr \in Registered
          BY <1>2, <4>1, Facts DEF Registered
        <5>2. entry[clients[m.addr]].addr = m.addr
          BY <5>1 DEF ObjectsInUse
        <5> QED BY <2>2, <3>2, <4>1, <5>2
      <4> QED BY <1>4, <3>2, <4>1
    <3> QED BY <1>4, <3>1, <3>2, <3>3 DEF Objects
  <2> QED BY <2>1, <2>2
<1>6. \A a \in Addr : gone'[a] > 0 => gone'[a] = gone[a] /\ \A c \in Client : addr'[c] # a
  BY <1>2 DEF GoneInv, Abandoned
<1>7. \A n \in ToServer' : n \in ToServer
  BY <1>2 DEF ToServer
<1> QED BY <1>2, <1>5, <1>6, <1>7, GoneQuiet

LEMMA CleanupGone ==
  ASSUME Inv, GoneInv, CleanupClients, ServerKeeps
  PROVE  GoneInv'
<1> DEFINE kept == [a \in Addr |-> IF a \in Registered /\ ~Silent(clients[a])
                                   THEN clients[a] ELSE None]
<1>1. /\ clients' = kept /\ sweep' = 0 /\ entry' = Kept(entry, kept, taken, round)
      /\ UNCHANGED <<taken, net, gone, addr>>
  BY DEF CleanupClients, ServerKeeps, clientVars
<1>2. \A e \in Entry : (\E a \in Addr : kept[a] = e) => entry'[e] = entry[e]
  BY <1>1, KeptObjects DEF Inv, Shapes, ServerShape, ServerTypeOK
<1>3. ASSUME NEW a \in Registered'
      PROVE  /\ a \in Registered /\ ~Silent(clients[a])
             /\ entry'[clients'[a]] = entry[clients[a]]
  <2>1. /\ a \in Addr /\ kept[a] = clients[a] /\ a \in Registered /\ ~Silent(clients[a])
        /\ clients'[a] = clients[a]
    BY <1>1 DEF Registered
  <2>2. clients[a] \in Entry
    BY <2>1 DEF Registered, Inv, Shapes, ServerShape, ServerTypeOK
  <2> QED BY <1>2, <2>1, <2>2
<1>4. Abandoned'
  BY <1>1, <1>3 DEF GoneInv, Abandoned, ToServer
<1>5. ASSUME NEW a \in Registered'
      PROVE  entry'[clients'[a]].idle <= IdleLimit + sweep'
  <2>1. /\ ~(entry[clients[a]].idle > IdleLimit) /\ entry[clients[a]].idle \in Ages
        /\ entry'[clients'[a]].idle = entry[clients[a]].idle
    BY <1>3, ObjectFields DEF Silent, Inv, Shapes, ServerShape, ObjectsInUse
  <2>2. IdleLimit \in Nat /\ SweepPeriod \in Nat
    BY Facts
  <2> QED BY <1>1, <2>1, <2>2 DEF Ages
<1> QED BY <1>4, <1>5 DEF GoneInv, Swept

LEMMA RestartGone ==
  ASSUME Inv, GoneInv, Restart
  PROVE  GoneInv'
<1>1. /\ clients' = [a \in Addr |-> None] /\ taken' = NothingTaken
      /\ UNCHANGED <<net, gone, addr>>
  BY DEF Restart, ServerRestart, clientVars
<1>2. Registered' = {}
  BY <1>1 DEF Registered
<1> QED BY <1>1, <1>2 DEF GoneInv, Abandoned, Swept, ToServer

(* A tick: the entry of an address without a process has been silent since   *)
(* before the process was gone.                                             *)
LEMMA TickGone ==
  ASSUME Inv, GoneInv, Patient, Tick
  PROVE  GoneInv'
<1> USE DEF Inv, Shapes
<1>1. /\ Quiet /\ sweep < SweepPeriod /\ sweep' = sweep + 1
      /\ gone' = [a \in Addr |-> IF a \in Registered /\ \A c \in Client : addr[c] # a
                                 THEN Older(gone[a]) ELSE 0]
      /\ UNCHANGED <<net, clients, taken, addr>>
  BY DEF Tick, AllDue, ServerTick, ClientTick
<1>2. Registered' = Registered
  BY <1>1 DEF Registered
<1>3. ASSUME NEW a \in Registered
      PROVE  /\ entry'[clients'[a]].idle = Older(entry[clients[a]].idle)
             /\ entry[clients[a]].idle \in Ages /\ a \in Addr /\ gone[a] \in Ages
  <2>1. clients[a] \in Objects /\ a \in Addr
    BY DEF ServerShape, ObjectsInUse, Registered
  <2>2. entry'[clients[a]] = [addr |-> entry[clients[a]].addr,
                              ch |-> Lapsed(Aged(entry[clients[a]].ch)),
                              idle |-> Older(entry[clients[a]].idle)]
    BY <2>1, TickObject
  <2>3. entry'[clients'[a]].idle = Older(entry[clients[a]].idle)
    BY <1>1, <2>2
  <2> QED BY <2>1, <2>3, ObjectFields DEF WireShape
<1>4. \A m, n \in Ages : m <= n => Older(m) <= Older(n)
  BY Facts DEF Older, Ages
<1>5. \A n \in Ages, k \in Nat : n <= k => Older(n) <= k + 1
  BY Facts DEF Older, Ages
<1>6. ASSUME NEW a \in Addr, gone'[a] > 0
      PROVE  /\ \A c \in Client : addr'[c] # a
             /\ \A m \in ToServer' : m.addr # a
             /\ taken' # NothingTaken => taken'.pkt.addr # a
             /\ a \in Registered' => gone'[a] <= entry'[clients'[a]].idle
  <2>1. a \in Registered /\ (\A c \in Client : addr[c] # a) /\ gone'[a] = Older(gone[a])
    BY <1>1, <1>6
  <2>2. QuietAt(a)
    BY <1>1 DEF Quiet
  <2>3. gone[a] <= entry[clients[a]].idle
    <3>1. gone[a] \in Nat /\ entry[clients[a]].idle \in Nat /\ (gone[a] > 0 \/ gone[a] = 0)
      BY <1>3, <2>1, Facts DEF Ages
    <3> QED BY <2>1, <3>1 DEF GoneInv, Abandoned
  <2>4. gone'[a] <= entry'[clients'[a]].idle
    BY <1>3, <1>4, <2>1, <2>3
  <2> QED BY <1>1, <2>1, <2>2, <2>4 DEF QuietAt, ToServer
<1>7. ASSUME NEW a \in Registered'
      PROVE  entry'[clients'[a]].idle <= IdleLimit + sweep'
  <2>1. entry[clients[a]].idle <= IdleLimit + sweep /\ a \in Registered
    BY <1>2 DEF GoneInv, Swept
  <2>2. sweep \in Nat /\ IdleLimit \in Nat /\ sweep' = sweep + 1
    BY <1>1, Facts DEF ServerShape, ServerTypeOK
  <2>3. Older(entry[clients[a]].idle) <= (IdleLimit + sweep) + 1
    BY <1>3, <1>5, <2>1, <2>2
  <2>4. entry'[clients'[a]].idle = Older(entry[clients[a]].idle)
    BY <1>3, <2>1
  <2>5. (IdleLimit + sweep) + 1 = IdleLimit + sweep'
    BY <2>2
  <2> QED BY <2>3, <2>4, <2>5
<1> QED BY <1>6, <1>7 DEF GoneInv, Abandoned, Swept

(* The other steps of the server leave the table and lastSeen alone. *)
LEMMA ServerGone ==
  ASSUME Inv, GoneInv, ServerStep
  PROVE  GoneInv'
<1> USE DEF Inv, Shapes
<1>k. ServerKeeps /\ gone' = gone /\ addr' = addr
  BY DEF ServerStep, ServerUdpStep, ServerTunStep, CleanupStep, ServerKeeps, clientVars
<1>a. \A a \in Addr : gone'[a] > 0 => gone'[a] = gone[a] /\ \A c \in Client : addr'[c] # a
  BY <1>k DEF GoneInv, Abandoned
<1>1. ASSUME NEW m \in ToServer, RefuseHandshake(m) \/ DropData(m) \/ DecryptData(m)
      PROVE  GoneInv'
  <2>1. net' \subseteq net /\ UNCHANGED <<clients, entry, sweep>>
    BY <1>1, ReceiveShrinks DEF RefuseHandshake, DropData, DecryptData, serverVars, ToServer
  <2>2. taken' \in {taken, NothingTaken} \/ \E n \in ToServer : taken'.pkt.addr = n.addr
    BY <1>1 DEF RefuseHandshake, DropData, DecryptData, serverVars, DatagramOf
  <2>3. \A n \in ToServer' : n \in ToServer
    BY <2>1 DEF ToServer
  <2>4. \A a \in Registered' :
           a \in Registered /\ entry'[clients'[a]].idle = entry[clients[a]].idle
    BY <2>1 DEF Registered
  <2> QED BY <1>a, <2>1, <2>2, <2>3, <2>4, GoneQuiet
<1>2. CASE SendReply
  <2>1. /\ net' = net \cup {reply} /\ reply.type = "msg2"
        /\ UNCHANGED <<clients, entry, sweep, taken>>
    BY <1>2 DEF SendReply, Send, ServerShape, ServerTypeOK
  <2>2. \A n \in ToServer' : n \in ToServer
    BY <2>1 DEF ToServer
  <2>3. \A a \in Registered' :
           a \in Registered /\ entry'[clients'[a]].idle = entry[clients[a]].idle
    BY <2>1 DEF Registered
  <2> QED BY <1>a, <2>1, <2>2, <2>3, GoneQuiet
<1>3. ASSUME NEW p \in DownPacket, ReadTun(p)
      PROVE  GoneInv'
  <2>1. UNCHANGED <<clients, entry, sweep, taken, net>>
    BY <1>3 DEF ReadTun
  <2>2. \A n \in ToServer' : n \in ToServer
    BY <2>1 DEF ToServer
  <2>3. \A a \in Registered' :
           a \in Registered /\ entry'[clients'[a]].idle = entry[clients[a]].idle
    BY <2>1 DEF Registered
  <2> QED BY <1>a, <2>1, <2>2, <2>3, GoneQuiet
<1>4. ASSUME NEW e \in Entry, SendDown(e)
      PROVE  GoneInv'
  <2>1. UNCHANGED <<clients, sweep, taken>> /\ entry' = Kept(entry, clients, taken, round')
    BY <1>4 DEF SendDown
  <2>2. \A n \in net' : n \in net \/ (n.type = "data" /\ n.dir = "down")
    BY <1>4 DEF SendDown, Send, Data
  <2>3. \A n \in ToServer' : n \in ToServer
    BY <2>2 DEF ToServer
  <2>4. \A f \in Entry : (\E a \in Addr : clients[a] = f) => entry'[f] = entry[f]
    BY <2>1, KeptObjects DEF ServerShape, ServerTypeOK
  <2>5. \A a \in Registered' :
           a \in Registered /\ entry'[clients'[a]].idle = entry[clients[a]].idle
    BY <2>1, <2>4 DEF Registered, ServerShape, ServerTypeOK
  <2> QED BY <1>a, <2>1, <2>3, <2>5, GoneQuiet
<1>5. ASSUME NEW m \in ToServer, ServerReceives(m) \/ Admit(m)
      PROVE  GoneInv'
  BY <1>k, <1>1, <1>5, HandlePingGone, AcceptGone DEF ServerReceives
<1> QED BY <1>k, <1>2, <1>3, <1>4, <1>5, FinishDataGone, CleanupGone
        DEF ServerStep, ServerUdpStep, ServerTunStep, CleanupStep

LEMMA LoseGone ==
  ASSUME Inv, GoneInv, NEW m \in net, Lose(m)
  PROVE  GoneInv'
<1>1. net' \subseteq net /\ UNCHANGED <<clients, entry, sweep, taken, gone, addr>>
  BY DEF Lose, serverVars, clientVars
<1>2. \A n \in ToServer' : n \in ToServer
  BY <1>1 DEF ToServer
<1> QED BY <1>1, <1>2 DEF GoneInv, Abandoned, Swept, Registered

LEMMA GoneNext ==
  ASSUME Patient, "stray" \notin Faults, Inv, GoneInv, [Next]_vars
  PROVE  GoneInv'
<1>1. CASE UNCHANGED vars
  BY <1>1 DEF vars, serverVars, clientVars, GoneInv, Abandoned, Swept, Registered, ToServer
<1>2. CASE Next
  <2>1. ~\E a \in Addr : StrayPing(a)
    BY DEF StrayPing
  <2> QED BY <1>2, <2>1, ClientGone, ServerGone, TickGone, RestartGone, LoseGone DEF Next
<1> QED BY <1>1, <1>2

LEMMA GoneInit == Init => GoneInv
<1> SUFFICES ASSUME Init PROVE GoneInv
  OBVIOUS
<1>1. Registered = {} /\ \A a \in Addr : gone[a] = 0
  BY DEF Init, ServerInit, Registered
<1> QED BY <1>1 DEF GoneInv, Abandoned, Swept

(***************************************************************************)
(* A dead client is removed: if only the clients send pings and the timers *)
(* are longer than anything under way takes, an address no process has     *)
(* used for the idle limit and one sweep is not in the table any more, for *)
(* any number of clients that come, go and lose datagrams (server main.go: *)
(* cleanupClients).                                                        *)
(***************************************************************************)
THEOREM DeadClientsAreSwept ==
  ASSUME Patient, "stray" \notin Faults
  PROVE  Spec => []DeadClientsLeave
<1>1. Inv /\ GoneInv => DeadClientsLeave
  <2> SUFFICES ASSUME Inv, GoneInv, NEW a \in Registered
               PROVE  gone[a] <= IdleLimit + SweepPeriod
    BY DEF DeadClientsLeave
  <2>1. a \in Addr /\ clients[a] \in Objects
    BY DEF Registered, Inv, Shapes, ServerShape, ObjectsInUse
  <2>2. /\ gone[a] > 0 => gone[a] <= entry[clients[a]].idle
        /\ entry[clients[a]].idle <= IdleLimit + sweep
    BY <2>1 DEF GoneInv, Abandoned, Swept
  <2>f. IdleLimit \in Nat /\ SweepPeriod \in Nat
    BY Facts
  <2>i. entry[clients[a]].idle \in Ages
    BY <2>1, ObjectFields
  <2>g. gone[a] \in Ages /\ sweep \in 0 .. SweepPeriod
    BY <2>1 DEF Inv, Shapes, WireShape, ServerShape, ServerTypeOK
  <2>3. /\ gone[a] \in Nat /\ entry[clients[a]].idle \in Nat /\ sweep \in Nat
        /\ sweep <= SweepPeriod
    BY <2>f, <2>i, <2>g DEF Ages
  <2> HIDE DEF Inv, GoneInv
  <2> QED BY <2>2, <2>3, <2>f
<1>2. Inv /\ GoneInv /\ [Next]_vars => (Inv /\ GoneInv)'
  BY GoneNext, NextInv
<1>3. Init => Inv /\ GoneInv
  BY GoneInit, InitInv
<1> QED BY <1>1, <1>2, <1>3, PTL DEF Spec

-----------------------------------------------------------------------------
(* The two ends stay in step.                                               *)

(* When Patient, a datagram that is received is gone. *)
LEMMA ReceivedIsGone ==
  ASSUME Patient, NEW m, Receive(m)
  PROVE  net' = net \ {m}
BY TunnelAssumption DEF Receive

SameClient(d) ==
    /\ phase'[d] = phase[d] /\ addr'[d] = addr[d] /\ channel'[d] = channel[d]
    /\ pending'[d] = pending[d] /\ reading'[d] = reading[d]

(* A client stays in step while no handshake starts or ends at its address,  *)
(* its entry keeps its channel, and it seals with its current session.       *)
LEMMA KeepsInStep ==
  ASSUME Inv, NEW d \in Client, SameClient(d),
         \A m \in Firsts' : m.addr = addr[d] => m \in Firsts,
         \A m \in Responses' : m.addr = addr[d] => m \in Responses,
         \A m \in Responses : m.addr = addr[d] => m \in Responses',
         \A m \in Frames' : m.addr = addr[d] /\ m.dir = "up"
                              => m \in Frames \/ m.sess = channel[d].cur,
         addr[d] \in Registered =>
            addr[d] \in Registered' /\ entry'[clients'[addr[d]]].ch = ServerEnd(d)
  PROVE  /\ OneHandshakeOf(d) => OneHandshakeOf(d)'
         /\ InStepWith(d) => InStepWith(d)'
<1>1. HandshakesAt(addr[d])' \subseteq HandshakesAt(addr[d])
  BY DEF SameClient, HandshakesAt
<1>2. Offered(d)' = Offered(d)
  BY DEF SameClient, Offered
<1>3. OneHandshakeOf(d) => OneHandshakeOf(d)'
  BY <1>1 DEF SameClient, OneHandshakeOf
<1>4. addr[d] \in Registered => addr'[d] \in Registered' /\ ServerEnd(d)' = ServerEnd(d)
  BY DEF SameClient, ServerEnd
<1>5. OnlyCurrent(d) => OnlyCurrent(d)'
  BY DEF SameClient, OnlyCurrent
<1>6. addr[d] \in Registered => (SameSessions(d) => SameSessions(d)') /\ (Ahead(d) => Ahead(d)')
  BY <1>4 DEF SameClient, SameSessions, Ahead
<1>7. ASSUME InStepWith(d) PROVE InStepWith(d)'
  BY <1>1, <1>2, <1>4, <1>5, <1>6, <1>7 DEF SameClient, InStepWith
<1> QED BY <1>3, <1>7

LEMMA UnseenQuiet ==
  ASSUME Inv, Unseen, sSeen' = sSeen,
         \A m \in Frames' : m.dir = "up" => m \in Frames,
         \A s \in Sess : Awaited(s)' => Awaited(s),
         \A c \in Running' :
            /\ c \in Running /\ channel'[c].cur = channel[c].cur
            /\ channel'[c].prev \in {channel[c].prev, NoSession}
            /\ \A s \in {channel[c].cur, channel[c].prev} \ {NoSession} :
                 cNonce'[s] = cNonce[s]
  PROVE  Unseen'
<1>1. \A m \in Frames' : m.dir = "up" => m.seq \notin sSeen'[m.sess]
  BY DEF Unseen
<1>2. \A s \in Sess : Awaited(s)' => sSeen'[s] = {}
  BY DEF Unseen
<1>3. ASSUME NEW c \in Running'
      PROVE  /\ \A s \in {channel'[c].cur, channel'[c].prev} \ {NoSession} :
                  \A n \in sSeen'[s] : n < cNonce'[s]
             /\ channel'[c].cur # channel'[c].prev
  <2>1. c \in Running /\ channel[c].cur \in Sess /\ NoSession \notin Sess
    BY Facts DEF Running, Inv, Shapes, ClientsShape, ClientShape
  <2> QED BY <2>1 DEF Unseen
<1> QED BY <1>1, <1>2, <1>3 DEF Unseen

(* The step of one client: the others are not concerned. *)
LEMMA OneClientSync ==
  ASSUME Inv, SyncInv, NEW c \in Client, UNCHANGED serverVars,
         \A d \in Client \ {c} : SameClient(d),
         \A m \in net' : m \in net \/ (m.addr = addr'[c] /\ m.type # "msg2"),
         \A m \in net : m \in net' \/ m.addr = addr[c],
         \/ addr'[c] \in {addr[c], None}
         \/ \A d \in Client : addr[d] # addr'[c],
         phase'[c] = "down" => addr'[c] = None,
         disturbed' = disturbed, OneHandshakeOf(c)', Unseen', ~disturbed => InStepWith(c)'
  PROVE  SyncInv'
<1> USE DEF SyncInv
<1>1. OwnAddress'
  BY DEF OwnAddress, SameClient
<1>2. ASSUME NEW d \in Client \ {c}
      PROVE  OneHandshakeOf(d)' /\ (InStep => InStepWith(d)')
  <2>0. SameClient(d)
    OBVIOUS
  <2>1. CASE phase[d] = "down"
    BY <2>0, <2>1 DEF SameClient, OneHandshakeOf, InStepWith
  <2>2. CASE phase[d] # "down"
    <3>1. addr[d] \in Addr /\ addr[d] # None
      BY <2>2, Facts DEF Inv, Shapes, ClientsShape, ClientShape
    <3>2. addr[d] # addr[c] /\ addr[d] # addr'[c]
      BY <3>1 DEF OwnAddress
    <3>3. \A m : m.addr = addr[d] => (m \in net <=> m \in net')
      BY <3>2
    <3>4. /\ \A m \in Firsts' : m.addr = addr[d] => m \in Firsts
          /\ \A m \in Responses' : m.addr = addr[d] => m \in Responses
          /\ \A m \in Responses : m.addr = addr[d] => m \in Responses'
          /\ \A m \in Frames' : m.addr = addr[d] => m \in Frames
      BY <3>3 DEF Firsts, Responses, Frames, serverVars
    <3>5. addr[d] \in Registered =>
            addr[d] \in Registered' /\ entry'[clients'[addr[d]]].ch = ServerEnd(d)
      BY DEF Registered, ServerEnd, serverVars
    <3>6. OneHandshakeOf(d) => OneHandshakeOf(d)'
      BY <2>0, <3>4, <3>5, KeepsInStep
    <3>7. InStepWith(d) => InStepWith(d)'
      BY <2>0, <3>4, <3>5, KeepsInStep
    <3> QED BY <3>6, <3>7 DEF OneHandshake, InStep
  <2> QED BY <2>1, <2>2
<1>3. reply' # None => reply' \notin net'
  BY DEF OneHandshake, serverVars, Inv, Shapes, ServerShape, ServerTypeOK
<1> QED BY <1>1, <1>2, <1>3 DEF OneHandshake, InStep

(* Nothing of a quiet address is under way. *)
LEMMA QuietHere ==
  ASSUME Inv, NEW a \in Addr, QuietAt(a)
  PROVE  \A m \in Firsts \cup Responses \cup Frames : m.addr # a
BY DEF QuietAt, Firsts, Responses, Frames

LEMMA StartSync ==
  ASSUME Inv, SyncInv, NEW c \in Client, NEW a \in Addr, NEW i \in Free(Ini, IniInUse),
         QuietAt(a), Start(c, a, i), ClientKeeps
  PROVE  SyncInv'
<1> USE DEF Inv, Shapes, ClientsShape, ClientTypeOK
<1>f. i \in Ini /\ (\A m \in Responses \cup Firsts : m.ini # i) /\ \A d \in Client : pending[d] # i
  BY FreshIni
<1> DEFINE r == Msg1(a, i, c)
<1>1. r.type = "msg1" /\ r.addr = a /\ r.ini = i
  BY DEF Msg1
<1>2. /\ UNCHANGED serverVars /\ net' = net \cup {r}
      /\ UNCHANGED <<channel, reading, cNonce, disturbed>>
      /\ phase[c] = "down" /\ (\A d \in Client : addr[d] # a)
      /\ phase'[c] = "handshake" /\ addr'[c] = a /\ pending'[c] = i
      /\ \A d \in Client \ {c} : SameClient(d)
  BY DEF Start, Send, ClientKeeps, SameClient
<1>3. Firsts' = Firsts \cup {r} /\ Responses' = Responses /\ Frames' = Frames
  BY <1>1, <1>2 DEF serverVars, Firsts, Responses, Frames
<1>4. reading[c] = None
  BY <1>2 DEF ClientShape
<1>5. HandshakesAt(a)' = {r}
  BY <1>1, <1>3, QuietHere DEF HandshakesAt
<1>6. OneHandshakeOf(c)'
  <2>1. HandshakesAt(addr[c])' = {r}
    BY <1>2, <1>5
  <2> QED BY <1>1, <1>2, <1>4, <2>1 DEF OneHandshakeOf
<1>7. InStepWith(c)'
  <2>1. Offered(c)' = {}
    BY <1>2, <1>3, <1>4, QuietHere DEF Offered
  <2> QED BY <1>2, <2>1 DEF InStepWith
<1>8. Unseen'
  <2>1. \A s \in Sess : Awaited(s)' => Awaited(s)
    BY <1>f, <1>2, <1>3 DEF Awaited, SameClient, Reading
  <2>2. Running' = Running
    BY <1>2 DEF Running, SameClient
  <2> QED BY <1>2, <1>3, <2>1, <2>2, UnseenQuiet DEF SyncInv, serverVars
<1> QED BY <1>1, <1>2, <1>6, <1>7, <1>8, OneClientSync

LEMMA ExitSync ==
  ASSUME Inv, SyncInv, NEW c \in Client, Exit(c), ClientKeeps, net' \subseteq net,
         \A m \in net : m \in net' \/ m.addr = addr[c], disturbed' = disturbed
  PROVE  SyncInv'
<1> USE DEF Inv, Shapes, ClientsShape, ClientTypeOK
<1>1. /\ UNCHANGED serverVars /\ UNCHANGED cNonce
      /\ phase'[c] = "down" /\ addr'[c] = None /\ reading'[c] = None /\ pending'[c] = None
      /\ \A d \in Client \ {c} : SameClient(d)
  BY DEF Exit, ClientKeeps, SameClient
<1>2. OneHandshakeOf(c)' /\ InStepWith(c)'
  BY <1>1 DEF OneHandshakeOf, InStepWith
<1>3. /\ Frames' \subseteq Frames /\ Responses' \subseteq Responses
      /\ \A m \in Responses : m.ini \in Ini
  BY <1>1, Fields DEF serverVars, Frames, Responses, WireShape, ServerShape, ServerTypeOK
<1>4. Unseen'
  <2>1. \A s \in Sess : Awaited(s)' => Awaited(s)
    BY <1>1, <1>3, Facts DEF Awaited, SameClient, Reading
  <2>2. \A d \in Running' : d \in Running \ {c} /\ channel'[d] = channel[d]
    BY <1>1 DEF Running, SameClient
  <2> QED BY <1>1, <1>3, <2>1, <2>2, UnseenQuiet DEF SyncInv, serverVars
<1> QED BY <1>1, <1>2, <1>4, OneClientSync

LEMMA StartRehandshakeSync ==
  ASSUME Inv, SyncInv, NEW c \in Client, NEW i \in Free(Ini, IniInUse),
         QuietAt(addr[c]), StartRehandshake(c, i), ClientKeeps
  PROVE  SyncInv'
<1> USE DEF Inv, Shapes, ClientsShape, ClientTypeOK
<1>f. i \in Ini /\ (\A m \in Responses \cup Firsts : m.ini # i) /\ \A d \in Client : pending[d] # i
  BY FreshIni
<1> DEFINE a == addr[c]
           r == Msg1(a, i, c)
<1>1. r.type = "msg1" /\ r.addr = a /\ r.ini = i
  BY DEF Msg1
<1>2. /\ UNCHANGED serverVars /\ net' = net \cup {r}
      /\ UNCHANGED <<phase, addr, channel, reading, cNonce, disturbed>>
      /\ phase[c] = "running" /\ pending'[c] = i /\ a \in Addr
      /\ \A d \in Client \ {c} : SameClient(d)
  BY DEF StartRehandshake, Send, ClientKeeps, SameClient, ClientShape
<1>3. Firsts' = Firsts \cup {r} /\ Responses' = Responses /\ Frames' = Frames
  BY <1>1, <1>2 DEF serverVars, Firsts, Responses, Frames
<1>4. reading[c] = None /\ \A m \in Firsts \cup Responses \cup Frames : m.addr # a
  BY <1>2, QuietHere DEF QuietAt
<1>5. HandshakesAt(addr[c])' = {r}
  BY <1>1, <1>2, <1>3, <1>4 DEF HandshakesAt
<1>6. OneHandshakeOf(c)'
  BY <1>1, <1>2, <1>4, <1>5 DEF OneHandshakeOf
<1>7. ASSUME ~disturbed PROVE InStepWith(c)'
  <2>1. Offered(c)' = {} /\ Offered(c) = {}
    BY <1>2, <1>3, <1>4 DEF Offered
  <2>2. OnlyCurrent(c)'
    BY <1>2, <1>3, <1>4 DEF OnlyCurrent
  <2>3. a \in Registered /\ SameSessions(c)
    BY <1>2, <1>7, <2>1 DEF SyncInv, InStep, InStepWith
  <2>4. addr'[c] \in Registered' /\ SameSessions(c)'
    BY <1>2, <2>3 DEF Registered, SameSessions, ServerEnd, serverVars
  <2> QED BY <1>2, <2>1, <2>2, <2>4 DEF InStepWith
<1>8. Unseen'
  <2>1. \A s \in Sess : Awaited(s)' => Awaited(s)
    BY <1>f, <1>2, <1>3 DEF Awaited, SameClient, Reading
  <2>2. Running' = Running
    BY <1>2 DEF Running
  <2> QED BY <1>2, <1>3, <2>1, <2>2, UnseenQuiet DEF SyncInv, serverVars
<1>9. phase'[c] # "down" /\ addr'[c] = addr[c]
  BY <1>2
<1> QED BY <1>1, <1>2, <1>6, <1>7, <1>8, <1>9, OneClientSync

(* The answer a client receives is the handshake under way at its address. *)
LEMMA TheAnswer ==
  ASSUME Inv, SyncInv, NEW c \in Client, NEW m \in ToClient(addr[c]), phase[c] # "down",
         m.type = "msg2"
  PROVE  /\ Answers(c, m) /\ m \in Responses /\ m \in net /\ m.addr = addr[c]
         /\ m.sess \in Sess /\ m.sess \in Offered(c)
         /\ reading[c] = None /\ HandshakesAt(addr[c]) = {m}
<1>1. m \in Responses /\ m \in net /\ m.addr = addr[c]
  BY DEF ToClient, Responses
<1>2. m \in HandshakesAt(addr[c])
  BY <1>1 DEF HandshakesAt
<1>3. m.ini = pending[c] /\ reading[c] = None /\ HandshakesAt(addr[c]) = {m}
  BY <1>2 DEF SyncInv, OneHandshake, OneHandshakeOf
<1>4. m.sess \in Sess
  BY <1>1, Fields DEF Inv, Shapes, WireShape
<1> QED BY <1>1, <1>3, <1>4 DEF Answers, Offered

(* A client takes the session it awaits: the server has not seen it used. *)
LEMMA TakenUnseen ==
  ASSUME Inv, SyncInv, NEW c \in Client, NEW s \in Sess, NewSession(s), Awaited(s),
         UNCHANGED serverVars, net' \subseteq net,
         channel'[c].cur = s, channel'[c].prev \in {channel[c].cur, NoSession},
         phase[c] # "running" => channel'[c].prev = NoSession,
         pending'[c] = None, reading'[c] = None,
         \A d \in Client \ {c} : SameClient(d)
  PROVE  Unseen'
<1> USE DEF Inv, Shapes, ClientsShape, ClientTypeOK
<1>1. /\ Frames' \subseteq Frames /\ Responses' \subseteq Responses
      /\ \A m \in Responses : m.ini \in Ini
      /\ sSeen' = sSeen
  BY Fields DEF serverVars, Frames, Responses, WireShape, ServerShape, ServerTypeOK
<1>2. \A q \in Sess : Awaited(q)' => Awaited(q)
  BY <1>1, Facts DEF Awaited, SameClient, Reading
<1>3. \A d \in Client : s \notin {channel[d].cur, channel[d].prev}
  BY DEF Untouched
<1>4. \A q : q # s => cNonce'[q] = cNonce[q]
  BY DEF NewSession
<1>5. sSeen[s] = {} /\ s # NoSession
  BY Facts DEF SyncInv, Unseen
<1>6. ASSUME NEW d \in Running'
      PROVE  /\ \A q \in {channel'[d].cur, channel'[d].prev} \ {NoSession} :
                  \A n \in sSeen'[q] : n < cNonce'[q]
             /\ channel'[d].cur # channel'[d].prev
  <2>1. CASE d = c
    <3>1. channel'[c].cur # channel'[c].prev
      BY <1>3, <1>5
    <3>2. ASSUME NEW q \in {channel'[c].cur, channel'[c].prev} \ {NoSession}, q # s
          PROVE  \A n \in sSeen'[q] : n < cNonce'[q]
      <4>1. c \in Running /\ q = channel[c].cur
        BY <3>2 DEF Running
      <4> QED BY <1>1, <1>4, <3>2, <4>1 DEF SyncInv, Unseen
    <3> QED BY <1>1, <1>5, <2>1, <3>1, <3>2
  <2>2. CASE d # c
    <3>1. d \in Running /\ channel'[d] = channel[d]
      BY <2>2 DEF Running, SameClient
    <3> QED BY <1>1, <1>3, <1>4, <3>1 DEF SyncInv, Unseen
  <2> QED BY <2>1, <2>2
<1> QED BY <1>1, <1>2, <1>6 DEF SyncInv, Unseen

LEMMA FinishHandshakeSync ==
  ASSUME Inv, SyncInv, Patient, NEW c \in Client, NEW m \in ToClient(addr[c]),
         FinishHandshake(c, m), ClientKeeps
  PROVE  SyncInv'
<1> USE DEF Inv, Shapes, ClientsShape, ClientTypeOK
<1>1. phase[c] = "handshake" /\ m.type = "msg2" /\ m \in net
  BY DEF FinishHandshake, Answers, ToClient
<1>2. /\ m \in Responses /\ m.addr = addr[c] /\ m.sess \in Sess /\ m.sess \in Offered(c)
      /\ reading[c] = None /\ HandshakesAt(addr[c]) = {m}
  BY <1>1, TheAnswer
<1>3. Awaited(m.sess)
  BY <1>1, AnswerIsOurs DEF FinishHandshake
<1>4. /\ UNCHANGED serverVars /\ UNCHANGED <<addr, disturbed>> /\ NewSession(m.sess)
      /\ net' = net \ {m} /\ phase'[c] = "running" /\ channel'[c] = NewChannel(m.sess)
      /\ pending'[c] = None /\ reading' = reading
      /\ \A d \in Client \ {c} : SameClient(d)
  BY ReceivedIsGone DEF FinishHandshake, ClientKeeps, SameClient
<1>5. /\ channel'[c].cur = m.sess /\ channel'[c].prev = NoSession /\ channel'[c].left = 0
  BY <1>4 DEF NewChannel
<1>6. reply # m
  BY <1>1, Facts DEF SyncInv, OneHandshake, WireShape
<1>7. HandshakesAt(addr[c])' = {}
  BY <1>1, <1>2, <1>4, <1>6 DEF HandshakesAt, Firsts, Responses, serverVars
<1>8. OneHandshakeOf(c)'
  BY <1>4, <1>7 DEF OneHandshakeOf
<1>9. ASSUME ~disturbed PROVE InStepWith(c)'
  <2>1. Offered(c)' = {}
    BY <1>2, <1>4, <1>7 DEF Offered, HandshakesAt
  <2>2. addr[c] \in Registered /\ ServerEnd(c).cur = m.sess
    BY <1>1, <1>2, <1>9 DEF SyncInv, InStep, InStepWith
  <2>3. addr'[c] \in Registered' /\ ServerEnd(c)' = ServerEnd(c)
    BY <1>4, <2>2 DEF Registered, ServerEnd, serverVars
  <2>4. SameSessions(c)'
    BY <1>5, <2>2, <2>3, Facts DEF SameSessions
  <2> QED BY <1>4, <1>7, <2>1, <2>3, <2>4 DEF InStepWith
<1>10. Unseen'
  BY <1>1, <1>2, <1>3, <1>4, <1>5, TakenUnseen
<1> QED BY <1>2, <1>4, <1>8, <1>9, <1>10, OneClientSync

LEMMA ReadResponseSync ==
  ASSUME Inv, SyncInv, Patient, NEW c \in Client, NEW m \in ToClient(addr[c]),
         ReadResponse(c, m), ClientKeeps
  PROVE  SyncInv'
<1> USE DEF Inv, Shapes, ClientsShape, ClientTypeOK
<1>1. phase[c] = "running" /\ m.type = "msg2" /\ m \in net /\ m.ini = pending[c]
  BY DEF ReadResponse, Listening, Answers, ToClient
<1>2. /\ m \in Responses /\ m.addr = addr[c] /\ m.sess \in Sess /\ m.sess \in Offered(c)
      /\ reading[c] = None /\ HandshakesAt(addr[c]) = {m}
  BY <1>1, TheAnswer
<1>m. m.ini \in Ini
  BY <1>1, Fields DEF WireShape
<1>4. /\ UNCHANGED serverVars
      /\ UNCHANGED <<phase, addr, channel, pending, cNonce, disturbed>>
      /\ net' = net \ {m} /\ reading'[c] = [ini |-> m.ini, sess |-> m.sess]
      /\ \A d \in Client \ {c} : SameClient(d)
  BY ReceivedIsGone DEF ReadResponse, ClientKeeps, SameClient
<1>5. reading'[c] # None /\ reading'[c].sess = m.sess
  BY <1>1, <1>2, <1>m, <1>4, Facts DEF Reads
<1>6. reply # m
  BY <1>1, Facts DEF SyncInv, OneHandshake, WireShape
<1>7. HandshakesAt(addr[c])' = {}
  BY <1>1, <1>2, <1>4, <1>6 DEF HandshakesAt, Firsts, Responses, serverVars
<1>8. OneHandshakeOf(c)'
  BY <1>4, <1>7 DEF OneHandshakeOf
<1>9. ASSUME ~disturbed PROVE InStepWith(c)'
  <2>0. InStepWith(c)
    BY <1>9 DEF SyncInv, InStep
  <2>1. Offered(c)' = Offered(c) /\ Offered(c) # {}
    BY <1>1, <1>2, <1>4, <1>5, <1>7 DEF Offered, HandshakesAt
  <2>2. /\ \A s \in Offered(c) : ServerEnd(c).cur = s
        /\ addr[c] \in Registered /\ Ahead(c) /\ OnlyCurrent(c)
    BY <1>1, <2>0, <2>1 DEF InStepWith
  <2>3. addr'[c] \in Registered' /\ ServerEnd(c)' = ServerEnd(c)
    BY <1>4, <2>2 DEF Registered, ServerEnd, serverVars
  <2>4. Ahead(c)' /\ OnlyCurrent(c)'
    BY <1>4, <2>2, <2>3 DEF Ahead, OnlyCurrent, Frames
  <2> QED BY <1>1, <1>4, <2>1, <2>2, <2>3, <2>4 DEF InStepWith
<1>10. Unseen'
  <2>1. \A s \in Sess : Awaited(s)' => Awaited(s)
    BY <1>1, <1>2, <1>4, <1>5 DEF Awaited, SameClient, Reading, Responses, serverVars
  <2>2. Running' = Running /\ Frames' \subseteq Frames
    BY <1>4 DEF Running, Frames
  <2> QED BY <1>4, <2>1, <2>2, UnseenQuiet DEF SyncInv, serverVars
<1>11. phase'[c] # "down" /\ addr'[c] = addr[c]
  BY <1>1, <1>4
<1> QED BY <1>2, <1>4, <1>8, <1>9, <1>10, <1>11, OneClientSync

LEMMA CompleteRehandshakeSync ==
  ASSUME Inv, SyncInv, NEW c \in Client, CompleteRehandshake(c), ClientKeeps
  PROVE  SyncInv'
<1> USE DEF Inv, Shapes, ClientsShape, ClientTypeOK
<1> DEFINE s == reading[c].sess
<1>1. /\ phase[c] = "running" /\ reading[c] # None /\ s \in Sess /\ Awaited(s)
  BY DEF CompleteRehandshake, Reading, Awaited, Reads
<1>2. s \in Offered(c) /\ HandshakesAt(addr[c]) = {}
  BY <1>1 DEF Offered, SyncInv, OneHandshake, OneHandshakeOf
<1>4. /\ UNCHANGED serverVars /\ UNCHANGED <<phase, addr, net, disturbed>> /\ NewSession(s)
      /\ channel'[c] = Rotated(channel[c], s)
      /\ pending'[c] = None /\ reading'[c] = None
      /\ \A d \in Client \ {c} : SameClient(d)
  BY DEF CompleteRehandshake, ClientKeeps, SameClient
<1>5. channel'[c].cur = s /\ channel'[c].prev = channel[c].cur /\ channel'[c].left = Grace
  BY <1>4 DEF Rotated
<1>7. HandshakesAt(addr[c])' = {}
  BY <1>2, <1>4 DEF HandshakesAt, Firsts, Responses, serverVars
<1>8. OneHandshakeOf(c)'
  BY <1>4, <1>7 DEF OneHandshakeOf
<1>9. ASSUME ~disturbed PROVE InStepWith(c)'
  <2>1. Offered(c)' = {}
    BY <1>4, <1>7 DEF Offered, HandshakesAt
  <2>2. addr[c] \in Registered /\ ServerEnd(c).cur = s /\ Ahead(c)
    BY <1>1, <1>2, <1>9 DEF SyncInv, InStep, InStepWith
  <2>3. addr'[c] \in Registered' /\ ServerEnd(c)' = ServerEnd(c)
    BY <1>4, <2>2 DEF Registered, ServerEnd, serverVars
  <2>4. SameSessions(c)'
    BY <1>5, <2>2, <2>3 DEF SameSessions, Ahead
  <2> QED BY <1>4, <1>7, <2>1, <2>3, <2>4 DEF InStepWith
<1>10. Unseen'
  BY <1>1, <1>4, <1>5, TakenUnseen
<1>11. phase'[c] # "down" /\ addr'[c] = addr[c]
  BY <1>1, <1>4
<1> QED BY <1>4, <1>8, <1>9, <1>10, <1>11, OneClientSync

(* The steps of a client that concern no handshake. *)
LEMMA SendUpSync ==
  ASSUME Inv, SyncInv, NEW c \in Client, NEW p \in UpPacket, SendUp(c, p), ClientKeeps
  PROVE  SyncInv'
<1> USE DEF Inv, Shapes, ClientsShape, ClientTypeOK
<1> DEFINE s == channel[c].cur
           f == Data("up", addr[c], s, cNonce[s], p)
<1>1. /\ phase[c] = "running" /\ s \in Sess /\ cNonce[s] \in Nat /\ c \in Running
      /\ f.type = "data" /\ f.dir = "up" /\ f.addr = addr[c] /\ f.sess = s
      /\ f.seq = cNonce[s]
  BY Facts DEF SendUp, ClientShape, Data, Running
<1>2. /\ UNCHANGED serverVars
      /\ UNCHANGED <<phase, addr, channel, pending, reading, disturbed>>
      /\ net' = net \cup {f} /\ cNonce' = [cNonce EXCEPT ![s] = @ + 1]
      /\ \A d \in Client : SameClient(d)
  BY DEF SendUp, Send, ClientKeeps, SameClient
<1>3. Firsts' = Firsts /\ Responses' = Responses /\ Frames' = Frames \cup {f}
  BY <1>1, <1>2 DEF serverVars, Firsts, Responses, Frames
<1>4. addr[c] \in Registered =>
            addr[c] \in Registered' /\ entry'[clients'[addr[c]]].ch = ServerEnd(c)
  BY <1>2 DEF serverVars, Registered, ServerEnd
<1>5. OneHandshakeOf(c) => OneHandshakeOf(c)'
  BY <1>1, <1>2, <1>3, <1>4, KeepsInStep
<1>6. InStepWith(c) => InStepWith(c)'
  BY <1>1, <1>2, <1>3, <1>4, KeepsInStep
<1>7. Unseen'
  <2>1. \A n \in sSeen[s] : n < cNonce[s]
    BY <1>1, Facts DEF SyncInv, Unseen
  <2>2. f.seq \notin sSeen[f.sess]
    BY <1>1, <2>1
  <2>3. \A m \in Frames' : m.dir = "up" => m.seq \notin sSeen'[m.sess]
    BY <1>2, <1>3, <2>2 DEF SyncInv, Unseen, serverVars
  <2>4. \A q \in Sess : Awaited(q)' => Awaited(q)
    BY <1>2, <1>3 DEF Awaited, Reading
  <2>5. ASSUME NEW d \in Running', NEW q \in {channel'[d].cur, channel'[d].prev} \ {NoSession},
               NEW n \in sSeen'[q]
        PROVE  n < cNonce'[q]
    <3>1. /\ d \in Running /\ q \in {channel[d].cur, channel[d].prev} \ {NoSession}
          /\ n \in sSeen[q] /\ q \in Sess /\ sSeen[q] \subseteq Counter
          /\ Running' = Running
      BY <1>2 DEF Running, serverVars, ClientShape, Channels, ServerShape, ServerTypeOK
    <3>2. n < cNonce[q]
      BY <3>1 DEF SyncInv, Unseen
    <3>3. n \in Int /\ cNonce[q] \in Int /\ cNonce'[q] \in {cNonce[q], cNonce[q] + 1}
      BY <1>2, <3>1 DEF Counter
    <3> QED BY <3>2, <3>3
  <2>6. \A d \in Running' : channel'[d].cur # channel'[d].prev
    BY <1>2 DEF Running, SyncInv, Unseen
  <2> QED BY <1>2, <2>3, <2>4, <2>5, <2>6 DEF SyncInv, Unseen, serverVars
<1>8. phase'[c] # "down" /\ addr'[c] = addr[c]
  BY <1>1, <1>2
<1> QED BY <1>1, <1>2, <1>5, <1>6, <1>7, <1>8, OneClientSync
        DEF SyncInv, OneHandshake, InStep

LEMMA SameSync ==
  ASSUME Inv, SyncInv, NEW c \in Client, phase[c] # "down", UNCHANGED serverVars,
         \A d \in Client : SameClient(d), cNonce' = cNonce, disturbed' = disturbed,
         \A m \in net' : m \in net \/ (m.addr = addr[c] /\ m.type = "ping"),
         \A m \in net : m \in net' \/ (m.addr = addr[c] /\ m.type = "data")
  PROVE  SyncInv'
<1>1. /\ addr'[c] = addr[c] /\ phase'[c] # "down"
      /\ \A m \in net' : m \in net \/ (m.addr = addr'[c] /\ m.type # "msg2")
  BY DEF SameClient
<1>2. Firsts' = Firsts /\ Responses' = Responses /\ Frames' \subseteq Frames
  BY DEF serverVars, Firsts, Responses, Frames
<1>3. addr[c] \in Registered =>
            addr[c] \in Registered' /\ entry'[clients'[addr[c]]].ch = ServerEnd(c)
  BY DEF serverVars, Registered, ServerEnd
<1>4. OneHandshakeOf(c) => OneHandshakeOf(c)'
  BY <1>2, <1>3, KeepsInStep
<1>5. InStepWith(c) => InStepWith(c)'
  BY <1>2, <1>3, KeepsInStep
<1>6. Unseen'
  <2>1. \A q \in Sess : Awaited(q)' => Awaited(q)
    BY <1>2 DEF Awaited, Reading, SameClient
  <2>2. \A d \in Running' : d \in Running /\ channel'[d] = channel[d]
    BY DEF Running, SameClient
  <2> QED BY <1>2, <2>1, <2>2, UnseenQuiet DEF SyncInv, serverVars
<1> QED BY <1>1, <1>4, <1>5, <1>6, OneClientSync DEF SyncInv, OneHandshake, InStep

LEMMA KeepAliveSync ==
  ASSUME Inv, SyncInv, NEW c \in Client, KeepAlive(c), ClientKeeps
  PROVE  SyncInv'
<1>1. Ping(addr[c]).type = "ping" /\ Ping(addr[c]).addr = addr[c]
  BY DEF Ping
<1>2. /\ phase[c] # "down" /\ net' = net \cup {Ping(addr[c])}
      /\ UNCHANGED serverVars /\ UNCHANGED clientVars /\ disturbed' = disturbed
  BY DEF KeepAlive, Send, ClientKeeps
<1>3. cNonce' = cNonce /\ \A d \in Client : SameClient(d)
  BY <1>2 DEF SameClient, clientVars
<1> QED BY <1>1, <1>2, <1>3, SameSync

LEMMA ReceiveDataSync ==
  ASSUME Inv, SyncInv, Patient, NEW c \in Client, NEW m \in ToClient(addr[c]),
         ReceiveData(c, m), ClientKeeps
  PROVE  SyncInv'
<1>1. /\ phase[c] # "down" /\ net' = net \ {m} /\ m.addr = addr[c] /\ m.type = "data"
      /\ UNCHANGED serverVars /\ cNonce' = cNonce /\ disturbed' = disturbed
      /\ \A d \in Client : SameClient(d)
  BY ReceivedIsGone DEF ReceiveData, Listening, ClientKeeps, SameClient, ToClient
<1> QED BY <1>1, SameSync

LEMMA ClientStepSync ==
  ASSUME Inv, SyncInv, Patient, NEW c \in Client, ClientStep(c)
  PROVE  SyncInv'
<1>k. ClientKeeps
  BY DEF ClientStep, MainStep, RekeyStep, KeepAliveStep, ClientTunStep, ClientUdpStep
<1>1. CASE MainStep(c)
  <2>1. ASSUME NEW a \in Addr, NEW i \in Free(Ini, IniInUse), Due(a), Start(c, a, i)
        PROVE  SyncInv'
    BY <1>k, <2>1, StartSync DEF Due
  <2>2. CASE Stop(c)
    BY <1>k, <2>2, ExitSync DEF Stop
  <2> QED BY <1>1, <2>1, <2>2 DEF MainStep
<1>2. CASE RekeyStep(c)
  BY <1>k, <1>2, StartRehandshakeSync DEF RekeyStep, Due
<1>3. CASE KeepAliveStep(c)
  BY <1>k, <1>3, KeepAliveSync DEF KeepAliveStep
<1>4. CASE ClientTunStep(c)
  BY <1>k, <1>4, SendUpSync DEF ClientTunStep
<1>5. ASSUME NEW m \in ToClient(addr[c]), ClientReceives(c, m)
      PROVE  SyncInv'
  <2>1. CASE FailHandshake(c, m)
    <3>1. net' = net \ {m} /\ m.addr = addr[c]
      BY <2>1, ReceivedIsGone DEF FailHandshake, ToClient
    <3> QED BY <1>k, <2>1, <3>1, ExitSync DEF FailHandshake
  <2>2. ~IgnoreResponse(c, m)
    BY TheAnswer DEF IgnoreResponse, Listening
  <2> QED BY <1>k, <1>5, <2>1, <2>2, FinishHandshakeSync, ReadResponseSync, ReceiveDataSync
          DEF ClientReceives
<1>6. CASE ClientUdpStep(c)
  BY <1>k, <1>5, <1>6, CompleteRehandshakeSync DEF ClientUdpStep
<1> QED BY <1>1, <1>2, <1>3, <1>4, <1>6 DEF ClientStep

-----------------------------------------------------------------------------
(* The steps of the server and the rest.                                    *)

(* A step that starts and ends no handshake, and changes no client.          *)
LEMMA ServerQuietSync ==
  ASSUME Inv, SyncInv, UNCHANGED clientVars,
         Firsts' \subseteq Firsts, Responses' \subseteq Responses,
         \A m \in Frames' : m.dir = "up" => m \in Frames,
         reply' # None => reply' \notin net',
         ~disturbed' =>
            /\ ~disturbed
            /\ \A c \in Client, m \in Responses : m.addr = addr[c] => m \in Responses'
            /\ \A a \in Registered :
                 a \in Registered' /\ entry'[clients'[a]].ch = entry[clients[a]].ch,
         \/ sSeen' = sSeen
         \/ Unseen'
  PROVE  SyncInv'
<1> USE DEF SyncInv
<1>1. OwnAddress'
  BY DEF OwnAddress, clientVars
<1>2. \A d \in Client : SameClient(d)
  BY DEF SameClient, clientVars
<1>3. ASSUME NEW d \in Client PROVE OneHandshakeOf(d)'
  <2>1. HandshakesAt(addr[d])' \subseteq HandshakesAt(addr[d])
    BY DEF HandshakesAt, clientVars
  <2> QED BY <1>2, <2>1 DEF OneHandshake, OneHandshakeOf, SameClient
<1>4. ASSUME NEW d \in Client, ~disturbed' PROVE InStepWith(d)'
  <2>1. InStepWith(d)
    BY <1>4 DEF InStep
  <2>2. addr[d] \in Registered =>
            addr[d] \in Registered' /\ entry'[clients'[addr[d]]].ch = ServerEnd(d)
    BY <1>4 DEF ServerEnd
  <2> QED BY <1>2, <1>4, <2>1, <2>2, KeepsInStep
<1>5. Unseen'
  <2>1. CASE sSeen' = sSeen
    <3>1. \A q \in Sess : Awaited(q)' => Awaited(q)
      BY DEF Awaited, Reading, clientVars
    <3>2. \A d \in Running' : d \in Running /\ channel'[d] = channel[d] /\ cNonce' = cNonce
      BY DEF Running, clientVars
    <3> QED BY <2>1, <3>1, <3>2, UnseenQuiet
  <2> QED BY <2>1
<1> QED BY <1>1, <1>3, <1>4, <1>5 DEF OneHandshake, InStep

(* A datagram that is no response is received, the table keeps its channels. *)
LEMMA ReceivedSync ==
  ASSUME Inv, SyncInv, Patient, NEW m \in ToServer, Receive(m), UNCHANGED clientVars,
         disturbed' = disturbed, reply' = reply,
         \A a \in Registered :
            a \in Registered' /\ entry'[clients'[a]].ch = entry[clients[a]].ch,
         sSeen' = sSeen \/ Unseen'
  PROVE  SyncInv'
<1>1. net' = net \ {m} /\ m.type # "msg2"
  BY ReceivedIsGone DEF ToServer
<1>2. /\ Firsts' \subseteq Firsts /\ Responses' = Responses
      /\ \A n \in Frames' : n \in Frames
  BY <1>1 DEF Firsts, Responses, Frames
<1>3. reply' # None => reply' \notin net'
  BY <1>1 DEF SyncInv, OneHandshake
<1> QED BY <1>2, <1>3, ServerQuietSync

LEMMA DecryptDataSync ==
  ASSUME Inv, SyncInv, Patient, NEW m \in ToServer, DecryptData(m), ServerKeeps
  PROVE  SyncInv'
<1> USE DEF Inv, Shapes, ServerShape, ServerTypeOK
<1>1. /\ Receive(m) /\ UNCHANGED clientVars /\ disturbed' = disturbed /\ reply' = reply
      /\ UNCHANGED <<clients, entry>>
      /\ m \in net /\ m.type = "data" /\ m.dir = "up"
      /\ sSeen' = [sSeen EXCEPT ![m.sess] = @ \cup {m.seq}]
  BY DEF DecryptData, ServerKeeps, ToServer
<1>2. m \in Frames /\ m.sess \in Sess /\ m.seq \in Counter
  BY <1>1, Fields DEF Frames, WireShape
<1>3. net' = net \ {m}
  BY <1>1, ReceivedIsGone
<1>4. \A n \in Frames' : n \in Frames \ {m}
  BY <1>3 DEF Frames
<1>5. /\ \A q \in Sess \ {m.sess} : sSeen'[q] = sSeen[q]
      /\ sSeen'[m.sess] = sSeen[m.sess] \cup {m.seq}
  BY <1>1, <1>2
<1>6. Unseen'
  <2>1. ASSUME NEW n \in Frames', n.dir = "up" PROVE n.seq \notin sSeen'[n.sess]
    <3>1. n \in Frames /\ n # m /\ n.seq \notin sSeen[n.sess] /\ n.sess \in Sess
      BY <1>4, <2>1, Fields DEF SyncInv, Unseen, Frames, WireShape
    <3>2. n.sess = m.sess => n.seq # m.seq
      BY <1>1, <1>2, <2>1, <3>1 DEF Sealed
    <3> QED BY <1>5, <3>1, <3>2
  <2>2. ASSUME NEW q \in Sess, Awaited(q)' PROVE sSeen'[q] = {}
    <3>1. Awaited(q)
      BY <1>1, <1>3, <2>2 DEF Awaited, Reading, Responses, clientVars
    <3>2. q # m.sess
      BY <1>1, <1>2, <3>1 DEF Untouched
    <3> QED BY <1>5, <3>1, <3>2 DEF SyncInv, Unseen
  <2>3. ASSUME NEW d \in Running', NEW q \in {channel'[d].cur, channel'[d].prev} \ {NoSession},
               NEW n \in sSeen'[q]
        PROVE  n < cNonce'[q]
    <3>1. /\ d \in Running /\ q \in {channel[d].cur, channel[d].prev} \ {NoSession}
          /\ cNonce' = cNonce /\ q \in Sess
      BY <1>1 DEF Running, clientVars, ClientsShape, ClientShape, ClientTypeOK, Channels
    <3>2. CASE n \in sSeen[q]
      BY <3>1, <3>2 DEF SyncInv, Unseen
    <3>3. CASE n \notin sSeen[q]
      <4>1. q = m.sess /\ n = m.seq
        BY <1>5, <3>1, <3>3
      <4>2. m.seq < cNonce[m.sess]
        BY <1>1, <1>2 DEF Sealed, Nonce
      <4> QED BY <3>1, <4>1, <4>2
    <3> QED BY <3>2, <3>3
  <2>4. \A d \in Running' : channel'[d].cur # channel'[d].prev
    BY <1>1 DEF Running, clientVars, SyncInv, Unseen
  <2> QED BY <2>1, <2>2, <2>3, <2>4 DEF Unseen
<1>7. \A a \in Registered :
            a \in Registered' /\ entry'[clients'[a]].ch = entry[clients[a]].ch
  BY <1>1 DEF Registered
<1> QED BY <1>1, <1>6, <1>7, ReceivedSync

LEMMA HandlePingSync ==
  ASSUME Inv, SyncInv, Patient, NEW m \in ToServer, HandlePing(m), ServerKeeps
  PROVE  SyncInv'
<1>1. /\ Receive(m) /\ UNCHANGED <<clients, clientVars, disturbed, reply, sSeen>>
  BY DEF HandlePing, ServerKeeps
<1>2. ASSUME NEW a \in Registered
      PROVE  a \in Registered' /\ entry'[clients'[a]].ch = entry[clients[a]].ch
  <2>1. a \in Registered' /\ clients'[a] = clients[a] /\ clients[a] \in Objects
    BY <1>1 DEF Registered, Inv, Shapes, ServerShape, ObjectsInUse
  <2>2. CASE m.addr \in Registered
    <3>1. PICK o \in Objects : o = clients[m.addr]
      BY <2>2 DEF Inv, Shapes, ServerShape, ObjectsInUse
    <3>2. entry' = Renewed(o)
      BY <2>2, <3>1 DEF HandlePing, Renewed
    <3>3. \A e \in Objects : entry'[e].ch = entry[e].ch
      BY <3>2, SeenAgain
    <3> QED BY <2>1, <3>3
  <2>3. CASE m.addr \notin Registered
    BY <2>1, <2>3 DEF HandlePing
  <2> QED BY <2>2, <2>3
<1> QED BY <1>1, <1>2, ReceivedSync

LEMMA FinishDataSync ==
  ASSUME Inv, SyncInv, FinishData, ServerKeeps
  PROVE  SyncInv'
<1>1. /\ taken # NothingTaken
      /\ UNCHANGED <<net, reply, clients, clientVars, disturbed, sSeen>>
  BY DEF FinishData, ServerKeeps
<1>2. PICK o \in Objects : o = taken.entry
  BY <1>1 DEF Inv, Shapes, ServerShape, ObjectsInUse
<1>3. entry' = Kept(Renewed(o), clients, NothingTaken, round)
  BY <1>2 DEF FinishData, Renewed
<1>4. ASSUME NEW a \in Registered
      PROVE  a \in Registered' /\ entry'[clients'[a]].ch = entry[clients[a]].ch
  <2>1. a \in Registered' /\ clients'[a] = clients[a] /\ clients[a] \in Objects /\ a \in Addr
    BY <1>1 DEF Registered, Inv, Shapes, ServerShape, ObjectsInUse
  <2>2. Renewed(o) \in [Entry -> ClientObject \cup {None}]
    BY SeenAgain
  <2>3. entry'[clients[a]] = Renewed(o)[clients[a]]
    BY <1>3, <2>1, <2>2, KeptObjects DEF Objects
  <2>4. Renewed(o)[clients[a]].ch = entry[clients[a]].ch
    BY <2>1, SeenAgain
  <2> QED BY <2>1, <2>3, <2>4
<1>5. Firsts' = Firsts /\ Responses' = Responses /\ Frames' = Frames
  BY <1>1 DEF Firsts, Responses, Frames
<1> QED BY <1>1, <1>4, <1>5, ServerQuietSync DEF SyncInv, OneHandshake

LEMMA SendDownSync ==
  ASSUME Inv, SyncInv, NEW e \in Entry, SendDown(e), ServerKeeps
  PROVE  SyncInv'
<1>1. /\ UNCHANGED <<reply, clients, clientVars, disturbed, sSeen>>
      /\ entry' = Kept(entry, clients, taken, round')
      /\ \A m \in net' : m \in net \/ (m.type = "data" /\ m.dir = "down")
      /\ net \subseteq net'
  BY DEF SendDown, Send, Data, ServerKeeps
<1>2. ASSUME NEW a \in Registered
      PROVE  a \in Registered' /\ entry'[clients'[a]].ch = entry[clients[a]].ch
  <2>1. a \in Registered' /\ clients'[a] = clients[a] /\ clients[a] \in Entry /\ a \in Addr
    BY <1>1 DEF Registered, Inv, Shapes, ServerShape, ServerTypeOK
  <2>2. entry'[clients[a]] = entry[clients[a]]
    BY <1>1, <2>1, KeptObjects DEF Inv, Shapes, ServerShape, ServerTypeOK
  <2> QED BY <2>1, <2>2
<1>3. /\ Firsts' = Firsts /\ Responses' = Responses
      /\ \A m \in Frames' : m.dir = "up" => m \in Frames
  BY <1>1 DEF Firsts, Responses, Frames
<1>4. reply' # None => reply' \notin net'
  BY <1>1 DEF SyncInv, OneHandshake, Inv, Shapes, ServerShape, ServerTypeOK
<1> QED BY <1>1, <1>2, <1>3, <1>4, ServerQuietSync

LEMMA CleanupSync ==
  ASSUME Inv, SyncInv, CleanupClients, ServerKeeps
  PROVE  SyncInv'
<1> DEFINE kept == [a \in Addr |-> IF a \in Registered /\ ~Silent(clients[a])
                                   THEN clients[a] ELSE None]
<1>1. /\ UNCHANGED <<net, reply, clientVars, sSeen>>
      /\ clients' = kept /\ entry' = Kept(entry, kept, taken, round)
      /\ disturbed' = (disturbed \/ kept # clients)
  BY DEF CleanupClients, ServerKeeps
<1>2. ASSUME ~disturbed', NEW a \in Registered
      PROVE  a \in Registered' /\ entry'[clients'[a]].ch = entry[clients[a]].ch
  <2>1. clients' = clients /\ entry' = Kept(entry, clients, taken, round)
    BY <1>1, <1>2
  <2>2. a \in Registered' /\ clients'[a] = clients[a] /\ clients[a] \in Entry /\ a \in Addr
    BY <2>1 DEF Registered, Inv, Shapes, ServerShape, ServerTypeOK
  <2>3. entry'[clients[a]] = entry[clients[a]]
    BY <2>1, <2>2, KeptObjects DEF Inv, Shapes, ServerShape, ServerTypeOK
  <2> QED BY <2>2, <2>3
<1>3. Firsts' = Firsts /\ Responses' = Responses /\ Frames' = Frames
  BY <1>1 DEF Firsts, Responses, Frames
<1>4. ~disturbed' => ~disturbed
  BY <1>1
<1> QED BY <1>1, <1>2, <1>3, <1>4, ServerQuietSync DEF SyncInv, OneHandshake

LEMMA RestartSync ==
  ASSUME Inv, SyncInv, Restart
  PROVE  SyncInv'
<1>1. /\ UNCHANGED <<net, clientVars, sSeen>> /\ reply' = None /\ disturbed' = TRUE
  BY DEF Restart, ServerRestart
<1>2. Firsts' = Firsts /\ Responses' \subseteq Responses /\ Frames' = Frames
  BY <1>1 DEF Firsts, Responses, Frames
<1> QED BY <1>1, <1>2, ServerQuietSync

LEMMA LoseSync ==
  ASSUME Inv, SyncInv, NEW m \in net, Lose(m)
  PROVE  SyncInv'
<1>1. /\ net' = net \ {m} /\ UNCHANGED <<serverVars, clientVars>>
      /\ disturbed' = (disturbed \/ (m.type = "msg2" /\ "lose" \in Faults))
  BY DEF Lose
<1>2. /\ Firsts' \subseteq Firsts /\ Responses' \subseteq Responses
      /\ \A n \in Frames' : n \in Frames
  BY <1>1 DEF Firsts, Responses, Frames, serverVars
<1>3. ASSUME ~disturbed', NEW c \in Client, NEW n \in Responses, n.addr = addr[c]
      PROVE  n \in Responses'
  <2>1. CASE n = m
    <3>1. (reply # None /\ n = reply) \/ (m.type = "msg2" /\ n \in net)
      BY <2>1 DEF Responses
    <3>2. CASE m.type = "msg2" /\ n \in net
      BY <1>1, <1>3, <2>1, <3>2 DEF Lose
    <3>3. CASE reply # None /\ n = reply
      BY <1>1, <1>3, <3>3 DEF Responses, serverVars
    <3> QED BY <3>1, <3>2, <3>3
  <2>2. CASE n # m
    BY <1>1, <2>2 DEF Responses, serverVars
  <2> QED BY <2>1, <2>2
<1>4. \A a \in Registered :
            a \in Registered' /\ entry'[clients'[a]].ch = entry[clients[a]].ch
  BY <1>1 DEF serverVars, Registered
<1>5. sSeen' = sSeen /\ (reply' # None => reply' \notin net') /\ (~disturbed' => ~disturbed)
  BY <1>1 DEF SyncInv, OneHandshake, serverVars
<1> QED BY <1>1, <1>2, <1>3, <1>4, <1>5, ServerQuietSync

(* A first message under way is the only handshake of its client. *)
LEMMA TheFirst ==
  ASSUME SyncInv, NEW d \in Client, phase[d] # "down", NEW m \in Firsts, m.addr = addr[d]
  PROVE  /\ m.ini = pending[d] /\ reading[d] = None /\ HandshakesAt(addr[d]) = {m}
         /\ \A n \in Firsts \cup Responses : n.addr = addr[d] => n = m
<1>1. m \in HandshakesAt(addr[d])
  BY DEF HandshakesAt
<1>2. /\ m.ini = pending[d] /\ reading[d] = None
      /\ \A n \in HandshakesAt(addr[d]) : n = m
  BY <1>1 DEF SyncInv, OneHandshake, OneHandshakeOf
<1>3. HandshakesAt(addr[d]) = {m}
  BY <1>1, <1>2
<1> QED BY <1>2, <1>3 DEF HandshakesAt

(* The server accepts a handshake: it is now ahead by the session it offers. *)
LEMMA AcceptSync ==
  ASSUME Inv, SyncInv, Patient, NEW m \in ToServer, NEW s \in Free(Sess, SessInUse),
         AcceptHandshake(m, s), ServerKeeps
  PROVE  SyncInv'
<1> USE DEF Inv, Shapes, ServerShape, ServerTypeOK
<1> DEFINE a == m.addr
           r == Msg2(a, m.ini, s)
<1>f. /\ s \in Sess
      /\ \A n \in Responses \cup Frames : n.sess # s
      /\ \A c \in Client : s \notin {channel[c].cur, channel[c].prev}
      /\ \A c \in Reading : reading[c].sess # s
  BY FreshSession
<1>1. /\ m \in net /\ m.type = "msg1" /\ reply = None /\ net' = net \ {m}
      /\ UNCHANGED <<clientVars, disturbed>> /\ Register(a, s) /\ reply' = r
      /\ sSeen' = [sSeen EXCEPT ![s] = {}]
  BY ReceivedIsGone DEF AcceptHandshake, UdpReady, ToServer, ServerKeeps
<1>m. a \in Addr /\ m.ini \in Ini /\ m \in Firsts
  BY <1>1, Fields DEF WireShape, Firsts
<1>r. /\ r # None /\ r.type = "msg2" /\ r.addr = a /\ r.ini = m.ini /\ r.sess = s
  <2>1. r.type = "msg2" /\ r.addr = a /\ r.ini = m.ini /\ r.sess = s
    BY DEF Msg2
  <2>2. r \in Message
    BY <1>f, <1>m DEF Msg2, Message
  <2> QED BY <2>1, <2>2, Facts
<1>2. /\ Firsts' = Firsts \ {m} /\ Frames' = Frames /\ Responses' = Responses \cup {r}
  BY <1>1, <1>r DEF Firsts, Frames, Responses
<1>o. PICK o \in Entry :
            /\ clients' = [clients EXCEPT ![a] = o]
            /\ \A e \in Entry \ {o} : entry'[e] = entry[e]
            /\ entry'[o].ch.cur = s
            /\ \/ o \notin Objects /\ a \notin Registered
               \/ /\ o \in Objects /\ a \in Registered /\ clients[a] = o
                  /\ entry'[o].ch = Rotated(entry[o].ch, s)
  BY <1>1, <1>f, <1>m, RegisterEffect
<1>3. OwnAddress'
  BY <1>1 DEF SyncInv, OwnAddress, clientVars
<1>c. \A d \in Client : SameClient(d)
  BY <1>1 DEF SameClient, clientVars
<1>4. ASSUME NEW d \in Client PROVE OneHandshakeOf(d)'
  <2>1. CASE addr[d] = a /\ phase[d] # "down"
    <3>1. /\ m.ini = pending[d] /\ reading[d] = None
          /\ \A n \in Firsts \cup Responses : n.addr = a => n = m
      BY <1>m, <2>1, TheFirst
    <3>2. HandshakesAt(addr[d])' = {r}
      <4>1. addr'[d] = a /\ \A n \in Responses : n.type = "msg2"
        BY <1>1, <1>c, <2>1 DEF SameClient, Responses
      <4>2. \A n \in Firsts' \cup Responses' : n.addr = a <=> n = r
        BY <1>1, <1>2, <1>r, <3>1, <4>1
      <4> QED BY <1>2, <4>1, <4>2 DEF HandshakesAt
    <3> QED BY <1>c, <1>r, <3>1, <3>2 DEF OneHandshakeOf, SameClient
  <2>2. CASE addr[d] # a
    <3>1. HandshakesAt(addr[d])' \subseteq HandshakesAt(addr[d])
      BY <1>2, <1>r, <1>c, <2>2 DEF HandshakesAt, SameClient
    <3> QED BY <1>c, <3>1 DEF SyncInv, OneHandshake, OneHandshakeOf, SameClient
  <2>3. CASE phase[d] = "down"
    BY <1>c, <2>3 DEF OneHandshakeOf, SameClient
  <2> QED BY <2>1, <2>2, <2>3
<1>5. reply' # None => reply' \notin net'
  BY <1>1, <1>f, <1>r DEF Responses
<1>6. Unseen'
  <2>1. \A q \in Sess \ {s} : sSeen'[q] = sSeen[q]
    BY <1>1
  <2>2. sSeen'[s] = {}
    BY <1>1, <1>f
  <2>3. \A n \in Frames' : n.dir = "up" => n.seq \notin sSeen'[n.sess]
    BY <1>2, <1>f, <2>1, Fields DEF SyncInv, Unseen, Frames, WireShape
  <2>4. ASSUME NEW q \in Sess, Awaited(q)' PROVE sSeen'[q] = {}
    <3>1. q = s \/ Awaited(q)
      BY <1>1, <1>2, <1>r, <2>4 DEF Awaited, Reading, clientVars
    <3> QED BY <2>1, <2>2, <3>1 DEF SyncInv, Unseen
  <2>5. ASSUME NEW d \in Running'
        PROVE  /\ \A q \in {channel'[d].cur, channel'[d].prev} \ {NoSession} :
                    \A n \in sSeen'[q] : n < cNonce'[q]
               /\ channel'[d].cur # channel'[d].prev
    <3>1. /\ d \in Running /\ channel' = channel /\ cNonce' = cNonce
          /\ \A q \in {channel[d].cur, channel[d].prev} \ {NoSession} : q \in Sess \ {s}
      BY <1>1, <1>f DEF Running, clientVars, ClientsShape, ClientShape, ClientTypeOK, Channels
    <3> QED BY <2>1, <3>1 DEF SyncInv, Unseen
  <2> QED BY <2>3, <2>4, <2>5 DEF Unseen
<1>7. ASSUME NEW d \in Client, ~disturbed' PROVE InStepWith(d)'
  <2>0. InStepWith(d)
    BY <1>1, <1>7 DEF SyncInv, InStep
  <2>1. CASE addr[d] = a /\ phase[d] # "down"
    <3>1. /\ m.ini = pending[d] /\ reading[d] = None /\ HandshakesAt(a) = {m}
          /\ \A n \in Responses : n.addr # a
      <4>1. \A n \in Responses : n.type = "msg2"
        BY <1>1 DEF Responses
      <4>2. /\ m.ini = pending[d] /\ reading[d] = None /\ HandshakesAt(addr[d]) = {m}
            /\ \A n \in Firsts \cup Responses : n.addr = addr[d] => n = m
        BY <1>m, <2>1, TheFirst
      <4> QED BY <1>1, <2>1, <4>1, <4>2
    <3>2. Offered(d) = {}
      BY <2>1, <3>1 DEF Offered
    <3>3. Offered(d)' = {s}
      BY <1>2, <1>r, <1>f, <1>c, <2>1, <3>1, <3>2 DEF Offered, SameClient
    <3>4. /\ addr'[d] \in Registered' /\ clients'[addr'[d]] = o
          /\ ServerEnd(d)'.cur = s
      BY <1>o, <1>m, <1>c, <2>1, Facts DEF SameClient, Registered, ServerEnd
    <3>5. ASSUME phase[d] = "running" PROVE Ahead(d)' /\ OnlyCurrent(d)'
      <4>1. /\ a \in Registered /\ ServerEnd(d).cur = channel[d].cur /\ OnlyCurrent(d)
        BY <2>0, <2>1, <3>1, <3>2, <3>5 DEF InStepWith, SameSessions
      <4>2. /\ entry'[o].ch.prev = channel[d].cur /\ entry'[o].ch.left = Grace
        BY <1>o, <2>1, <4>1 DEF ServerEnd, Rotated
      <4> QED BY <1>2, <1>c, <3>4, <4>1, <4>2 DEF Ahead, OnlyCurrent, ServerEnd, SameClient
    <3> QED BY <1>c, <2>1, <3>3, <3>4, <3>5 DEF InStepWith, SameClient
  <2>2. CASE addr[d] # a
    <3>1. ASSUME addr[d] \in Registered
          PROVE  addr[d] \in Registered' /\ entry'[clients'[addr[d]]].ch = ServerEnd(d)
      <4>1. clients[addr[d]] \in Objects /\ entry[clients[addr[d]]].addr = addr[d]
        BY <3>1 DEF ObjectsInUse
      <4>2. clients[addr[d]] # o
        <5>1. CASE o \notin Objects
          BY <4>1, <5>1
        <5>2. CASE a \in Registered /\ clients[a] = o
          BY <2>2, <4>1, <5>2 DEF ObjectsInUse
        <5> QED BY <1>o, <5>1, <5>2
      <4>3. clients'[addr[d]] = clients[addr[d]] /\ addr[d] \in Registered'
        BY <1>o, <2>2, <3>1 DEF Registered
      <4> QED BY <1>o, <4>1, <4>2, <4>3 DEF ServerEnd, Objects
    <3>2. /\ \A n \in Firsts' : n.addr = addr[d] => n \in Firsts
          /\ \A n \in Responses' : n.addr = addr[d] => n \in Responses
          /\ \A n \in Responses : n.addr = addr[d] => n \in Responses'
          /\ \A n \in Frames' : n.addr = addr[d] => n \in Frames
      BY <1>2, <1>r, <2>2
    <3> QED BY <1>c, <2>0, <3>1, <3>2, KeepsInStep
  <2>3. CASE phase[d] = "down"
    BY <1>c, <2>3 DEF InStepWith, SameClient
  <2> QED BY <2>1, <2>2, <2>3
<1> QED BY <1>3, <1>4, <1>5, <1>6, <1>7 DEF SyncInv, OneHandshake, InStep

LEMMA AgedKeeps ==
  ASSUME NEW S, NEW ch \in Channels(S)
  PROVE  /\ ch.left \in Nat
         /\ Lapsed(Aged(ch)).left > 0 => Lapsed(Aged(ch)).prev = ch.prev
<1> DEFINE n == IF ch.left > 0 THEN ch.left - 1 ELSE 0
           q == [cur |-> ch.cur, prev |-> ch.prev, left |-> n]
<1>1. Aged(ch) = q /\ ch.left \in Nat
  BY Facts DEF Aged, Channels
<1>2. Lapsed(q) = IF n = 0 THEN [cur |-> ch.cur, prev |-> NoSession, left |-> n] ELSE q
  BY DEF Lapsed
<1> HIDE DEF n
<1> QED BY <1>1, <1>2

(* A tick ages both ends alike: nothing is under way, so they are level.     *)
LEMMA TickSync ==
  ASSUME Inv, SyncInv, Patient, Tick
  PROVE  SyncInv'
<1> USE DEF Inv, Shapes, ServerShape, ServerTypeOK
<1>1. /\ Quiet
      /\ channel' = [c \in Client |-> Lapsed(Aged(channel[c]))]
      /\ UNCHANGED <<net, disturbed, clients, reply, sSeen,
                     phase, addr, pending, reading, cNonce>>
  BY DEF Tick, AllDue, ServerTick, ClientTick
<1>2. ASSUME NEW d \in Client
      PROVE  /\ channel'[d].cur = channel[d].cur
             /\ channel'[d].prev \in {channel[d].prev, NoSession}
             /\ channel'[d].left = (IF channel[d].left > 0 THEN channel[d].left - 1 ELSE 0)
             /\ channel'[d].left > 0 => channel'[d].prev = channel[d].prev
             /\ channel[d].left \in Nat
  <2>1. channel[d] \in Channels(Sess \cup {NoSession})
    BY DEF ClientsShape, ClientTypeOK
  <2>2. channel'[d] = Lapsed(Aged(channel[d]))
    BY <1>1
  <2>3. PICK ch \in Channels(Sess \cup {NoSession}) : ch = channel[d]
    BY <2>1
  <2>4. /\ Lapsed(Aged(ch)).cur = ch.cur
        /\ Lapsed(Aged(ch)).prev \in {ch.prev, NoSession}
        /\ Lapsed(Aged(ch)).left = (IF ch.left > 0 THEN ch.left - 1 ELSE 0)
    BY AgedChannel
  <2>5. ch.left \in Nat /\ (Lapsed(Aged(ch)).left > 0 => Lapsed(Aged(ch)).prev = ch.prev)
    BY AgedKeeps
  <2> QED BY <2>2, <2>3, <2>4, <2>5
<1>3. OwnAddress'
  BY <1>1 DEF SyncInv, OwnAddress
<1>4. /\ Firsts' = Firsts /\ Responses' = Responses /\ Frames' = Frames
      /\ Registered' = Registered
  BY <1>1 DEF Firsts, Responses, Frames, Registered
<1>5. ASSUME NEW d \in Client, phase[d] # "down"
      PROVE  /\ addr[d] \in Addr /\ phase[d] = "running" /\ reading[d] = None
             /\ \A m \in Firsts \cup Responses : m.addr # addr[d]
  <2>1. addr[d] \in Addr
    BY <1>5 DEF ClientsShape, ClientShape
  <2>2. QuietAt(addr[d])
    BY <1>1, <2>1 DEF Quiet
  <2> QED BY <2>1, <2>2, QuietHere DEF QuietAt
<1>6. ASSUME NEW d \in Client PROVE OneHandshakeOf(d)'
  BY <1>1, <1>4, <1>5 DEF OneHandshakeOf, HandshakesAt
<1>7. ASSUME NEW d \in Client, phase[d] # "down", ~disturbed PROVE InStepWith(d)'
  <2>1. Offered(d) = {} /\ Offered(d)' = {} /\ HandshakesAt(addr[d])' = {}
    BY <1>1, <1>4, <1>5, <1>7 DEF Offered, HandshakesAt
  <2>2. addr[d] \in Registered /\ SameSessions(d)
    BY <1>5, <1>7, <2>1 DEF SyncInv, InStep, InStepWith
  <2>3. PICK o \in Objects : o = clients[addr[d]]
    BY <2>2 DEF ObjectsInUse
  <2>4. entry'[o] = [addr |-> entry[o].addr, ch |-> Lapsed(Aged(entry[o].ch)),
                     idle |-> Older(entry[o].idle)]
    BY TickObject
  <2>5. entry'[o].ch = Lapsed(Aged(entry[o].ch)) /\ entry[o].ch \in Channels(Sess)
    <3>1. entry'[o].ch = Lapsed(Aged(entry[o].ch))
      BY <2>4
    <3> QED BY <3>1, ObjectFields
  <2>6. /\ entry'[o].ch.cur = entry[o].ch.cur
        /\ entry'[o].ch.left = (IF entry[o].ch.left > 0 THEN entry[o].ch.left - 1 ELSE 0)
        /\ entry'[o].ch.left > 0 => entry'[o].ch.prev = entry[o].ch.prev
    BY <2>5, AgedChannel, AgedKeeps
  <2>7. entry[o].ch = ServerEnd(d) /\ entry'[o].ch = ServerEnd(d)'
    BY <1>1, <2>3 DEF ServerEnd
  <2>8. ASSUME channel'[d].left > 0
        PROVE  /\ ServerEnd(d)'.prev = channel'[d].prev
               /\ ServerEnd(d)'.left = channel'[d].left
    <3>1. channel[d].left > 0 /\ channel'[d].prev = channel[d].prev
          /\ channel'[d].left = channel[d].left - 1
      BY <1>2, <2>8
    <3>2. entry[o].ch.prev = channel[d].prev /\ entry[o].ch.left = channel[d].left
      BY <2>2, <2>7, <3>1 DEF SameSessions
    <3>3. entry'[o].ch.left = channel'[d].left
      BY <2>6, <3>1, <3>2
    <3> QED BY <2>6, <2>7, <2>8, <3>1, <3>2, <3>3
  <2>9. SameSessions(d)'
    BY <1>2, <2>2, <2>6, <2>7, <2>8 DEF SameSessions
  <2> QED BY <1>1, <1>4, <2>1, <2>2, <2>9 DEF InStepWith
<1>8. \A d \in Client : phase[d] = "down" => InStepWith(d)'
  BY <1>1 DEF InStepWith
<1>9. Unseen'
  <2>1. \A q \in Sess : Awaited(q)' => Awaited(q)
    BY <1>1, <1>4 DEF Awaited, Reading
  <2>2. Running' = Running
    BY <1>1 DEF Running
  <2> QED BY <1>1, <1>2, <1>4, <2>1, <2>2, UnseenQuiet DEF SyncInv, Running
<1>10. reply' # None => reply' \notin net'
  BY <1>1 DEF SyncInv, OneHandshake
<1> QED BY <1>1, <1>3, <1>6, <1>7, <1>8, <1>9, <1>10 DEF SyncInv, OneHandshake, InStep

LEMMA ServerStepSync ==
  ASSUME Inv, SyncInv, Patient, ServerStep
  PROVE  SyncInv'
<1>k. ServerKeeps
  BY DEF ServerStep, ServerUdpStep, ServerTunStep, CleanupStep
<1>1. ASSUME NEW m \in ToServer, RefuseHandshake(m) \/ DropData(m)
      PROVE  SyncInv'
  <2>1. Receive(m) /\ UNCHANGED <<serverVars, clientVars, disturbed>>
    BY <1>k, <1>1 DEF RefuseHandshake, DropData, ServerKeeps
  <2>2. /\ reply' = reply /\ sSeen' = sSeen
        /\ \A a \in Registered :
             a \in Registered' /\ entry'[clients'[a]].ch = entry[clients[a]].ch
    BY <2>1 DEF serverVars, Registered
  <2> QED BY <2>1, <2>2, ReceivedSync
<1>2. ASSUME NEW m \in ToServer, Admit(m)
      PROVE  SyncInv'
  BY <1>k, <1>2, AcceptSync DEF Admit
<1>3. CASE SendReply
  <2>1. /\ UNCHANGED <<clients, entry, sSeen, disturbed, clientVars>>
        /\ net' = net \cup {reply} /\ reply' = None /\ reply # None /\ reply.type = "msg2"
    BY <1>k, <1>3 DEF SendReply, Send, ServerKeeps, Inv, Shapes, ServerShape, ServerTypeOK
  <2>2. Firsts' = Firsts /\ Responses' = Responses /\ Frames' = Frames
    BY <2>1 DEF Firsts, Responses, Frames
  <2>3. \A a \in Registered :
             a \in Registered' /\ entry'[clients'[a]].ch = entry[clients[a]].ch
    BY <2>1 DEF Registered
  <2> QED BY <2>1, <2>2, <2>3, ServerQuietSync
<1>4. ASSUME NEW p \in DownPacket, ReadTun(p)
      PROVE  SyncInv'
  <2>1. UNCHANGED <<clients, entry, reply, sSeen, net, disturbed, clientVars>>
    BY <1>k, <1>4 DEF ReadTun, ServerKeeps
  <2>2. Firsts' = Firsts /\ Responses' = Responses /\ Frames' = Frames
    BY <2>1 DEF Firsts, Responses, Frames
  <2>3. \A a \in Registered :
             a \in Registered' /\ entry'[clients'[a]].ch = entry[clients[a]].ch
    BY <2>1 DEF Registered
  <2> QED BY <2>1, <2>2, <2>3, ServerQuietSync DEF SyncInv, OneHandshake
<1>5. CASE ServerUdpStep
  BY <1>k, <1>1, <1>2, <1>3, <1>5, DecryptDataSync, HandlePingSync, FinishDataSync
     DEF ServerUdpStep, ServerReceives
<1>6. CASE ServerTunStep
  BY <1>k, <1>4, <1>6, SendDownSync DEF ServerTunStep
<1>7. CASE CleanupStep
  BY <1>k, <1>7, CleanupSync DEF CleanupStep
<1> QED BY <1>5, <1>6, <1>7 DEF ServerStep

LEMMA NextSync ==
  ASSUME Patient, Inv, SyncInv, [Next]_vars
  PROVE  SyncInv'
<1>1. ASSUME UNCHANGED <<serverVars, clientVars, disturbed>>,
             \A m \in net' : m \in net \/ m.type = "ping", net \subseteq net'
      PROVE  SyncInv'
  <2>1. Firsts' = Firsts /\ Responses' = Responses /\ Frames' = Frames
    BY <1>1 DEF Firsts, Responses, Frames, serverVars
  <2>2. /\ sSeen' = sSeen /\ (reply' # None => reply' \notin net')
        /\ \A a \in Registered :
             a \in Registered' /\ entry'[clients'[a]].ch = entry[clients[a]].ch
    BY <1>1 DEF Registered, serverVars, SyncInv, OneHandshake,
                Inv, Shapes, ServerShape, ServerTypeOK
  <2> QED BY <1>1, <2>1, <2>2, ServerQuietSync
<1>2. CASE UNCHANGED vars
  BY <1>1, <1>2 DEF vars
<1>3. ASSUME NEW a \in Addr, StrayPing(a)
      PROVE  SyncInv'
  BY <1>1, <1>3 DEF StrayPing, Send, Ping
<1> QED BY <1>2, <1>3, ClientStepSync, ServerStepSync, TickSync, RestartSync, LoseSync DEF Next

LEMMA InitSync == Init => SyncInv
<1> SUFFICES ASSUME Init PROVE SyncInv
  OBVIOUS
<1>1. /\ net = {} /\ reply = None /\ \A c \in Client : phase[c] = "down" /\ addr[c] = None
      /\ Running = {} /\ \A s \in Sess : sSeen[s] = {}
  BY DEF Init, ServerInit, ClientInit, Running
<1>2. Frames = {}
  BY <1>1 DEF Frames
<1>3. OneHandshake
  BY <1>1 DEF OneHandshake, OneHandshakeOf
<1> QED BY <1>1, <1>2, <1>3 DEF SyncInv, OwnAddress, Unseen, InStep, InStepWith

(* Both ends, from the beginning on. *)
LEMMA SpecSync ==
  ASSUME Patient
  PROVE  Spec => [](Inv /\ SyncInv)
<1>1. Init => Inv /\ SyncInv
  BY InitInv, InitSync
<1>2. Inv /\ SyncInv /\ [Next]_vars => (Inv /\ SyncInv)'
  BY NextInv, NextSync
<1> QED BY <1>1, <1>2, PTL DEF Spec

(***************************************************************************)
(* Whenever nothing is under way between a running client and the server,  *)
(* the two use the same session, if the timers are longer than anything    *)
(* under way takes and nothing set the ends apart: for any number of       *)
(* clients, rekeyings, addresses reused and datagrams lost, but responses  *)
(* (client main.go: completeRehandshake; server main.go: handleHandshake). *)
(***************************************************************************)
THEOREM EndsAgree ==
  ASSUME Patient
  PROVE  Spec => []SettledInSync
<1>1. Inv /\ SyncInv => SettledInSync
  <2> SUFFICES ASSUME Inv, SyncInv, ~disturbed, NEW c \in Running, QuietAt(addr[c])
               PROVE  InSync(c)
    BY DEF SettledInSync
  <2>1. phase[c] = "running" /\ c \in Client /\ addr[c] \in Addr /\ reading[c] = None
    BY DEF Running, QuietAt, Inv, Shapes, ClientsShape, ClientShape
  <2>2. Offered(c) = {}
    BY <2>1, QuietHere DEF Offered
  <2>3. InStepWith(c)
    BY <2>1 DEF SyncInv, InStep
  <2> QED BY <2>1, <2>2, <2>3 DEF InStepWith, SameSessions, ServerEnd, InSync
<1> QED BY <1>1, SpecSync, PTL

(***************************************************************************)
(* Rekeying does not interrupt what a client sends: every frame sealed     *)
(* under a session the client still holds opens at the server whenever it  *)
(* arrives, before, between and after the rotations of the two ends, under *)
(* the same conditions, unless a frame of that session a whole window      *)
(* ahead has overtaken it (server main.go: handleData and handleHandshake; *)
(* README.md: key rotation does not break traffic).                        *)
(***************************************************************************)
THEOREM UplinkSurvivesRekey ==
  ASSUME Patient
  PROVE  Spec => []UplinkOpen
<1>1. Inv /\ SyncInv => UplinkOpen
  <2> SUFFICES ASSUME Inv, SyncInv, ~disturbed, NEW c \in Running, NEW m \in ToServer,
                      m.type = "data", m.addr = addr[c], m.sess \in Held(channel[c]),
                      ~Overtaken(m)
               PROVE  ServerAccepts(m)
    BY DEF UplinkOpen
  <2> USE DEF Inv, Shapes, ClientsShape, ClientTypeOK
  <2>1. /\ phase[c] = "running" /\ c \in Client /\ m.dir = "up" /\ m \in Frames
        /\ addr[c] \in Addr /\ channel[c].cur \in Sess
    BY DEF Running, ToServer, Frames, ClientShape
  <2>2. m.sess \in Sess /\ m.seq \in Counter /\ sSeen[m.sess] \subseteq Counter
    BY <2>1, Fields DEF Frames, WireShape, ServerShape, ServerTypeOK
  <2>3. InStepWith(c)
    BY <2>1 DEF SyncInv, InStep
  <2>4. Fresh(sSeen[m.sess], m.seq)
    <3>1. m.seq \notin sSeen[m.sess]
      BY <2>1 DEF SyncInv, Unseen
    <3>2. \A n \in sSeen[m.sess] : ~(n - m.seq >= Window)
      BY DEF Overtaken
    <3>3. ASSUME NEW n \in sSeen[m.sess] PROVE n - m.seq < Window
      <4>1. n \in Nat /\ m.seq \in Nat /\ Window \in Nat /\ ~(n - m.seq >= Window)
        BY <2>2, <3>2, CounterAssumption, WindowAssumption DEF Counter
      <4> HIDE DEF Inv, Shapes, ClientsShape, ClientTypeOK
      <4> QED BY <4>1
    <3> QED BY <3>1, <3>3 DEF Fresh
  <2>5. channel[c].cur # channel[c].prev
    BY DEF SyncInv, Unseen
  <2>6. addr[c] \in Registered
    BY <2>1, <2>3 DEF InStepWith
  <2>7. Accepts(ServerEnd(c), sSeen, m)
    <3>0. m.sess = channel[c].cur \/ (m.sess = channel[c].prev /\ channel[c].left > 0)
      BY DEF Held
    <3>1. CASE Offered(c) = {}
      <4>1. SameSessions(c)
        BY <2>1, <2>3, <3>1 DEF InStepWith
      <4>2. CASE m.sess = channel[c].cur
        BY <2>4, <4>1, <4>2 DEF SameSessions, Accepts, Opens
      <4>3. CASE m.sess = channel[c].prev /\ channel[c].left > 0
        <5>1. /\ ServerEnd(c).prev = m.sess /\ ServerEnd(c).left > 0
              /\ ServerEnd(c).cur # m.sess /\ m.sess # NoSession
          BY <2>2, <2>5, <4>1, <4>3, Facts DEF SameSessions
        <5> QED BY <2>4, <5>1 DEF Accepts, Opens, PrevValid
      <4> QED BY <3>0, <4>2, <4>3
    <3>2. CASE Offered(c) # {}
      <4>1. PICK s \in Offered(c) : ServerEnd(c).cur = s
        BY <2>1, <2>3, <3>2 DEF InStepWith
      <4>2. Ahead(c) /\ m.sess = channel[c].cur
        BY <2>1, <2>3, <3>2 DEF InStepWith, OnlyCurrent
      <4>3. Awaited(s)
        BY <2>1, <4>1 DEF Offered, SyncInv, OneHandshake, OneHandshakeOf, HandshakesAt,
                          Awaited, Reading
      <4>4. s # channel[c].cur
        BY <2>1, <4>1, <4>3 DEF Untouched, Offered
      <4>5. /\ ServerEnd(c).prev = m.sess /\ ServerEnd(c).left > 0
            /\ ServerEnd(c).cur # m.sess /\ m.sess # NoSession
        BY <2>2, <4>1, <4>2, <4>4, Facts DEF Ahead
      <4> QED BY <2>4, <4>5 DEF Accepts, Opens, PrevValid
    <3> QED BY <3>1, <3>2
  <2> QED BY <2>6, <2>7 DEF ServerAccepts, ServerEnd
<1> QED BY <1>1, SpecSync, PTL

=============================================================================
