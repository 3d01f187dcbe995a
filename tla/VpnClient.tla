----------------------------- MODULE VpnClient ------------------------------
(***************************************************************************)
(* The clients (src/cmd/client/main.go), any number of processes.  A       *)
(* client first performs one handshake synchronously; only then are        *)
(* handleUDP, handleTUN, keepAlive and rekeyLoop started.  They share the  *)
(* channel and, under pendingMu, the pending initiator.                    *)
(*                                                                         *)
(* An action is what a goroutine does between two accesses to shared state *)
(* that could tell the order: sealing a frame and sending it is one action *)
(* (the network may delay it), and so is storing a pending initiator and   *)
(* sending its message.                                                    *)
(***************************************************************************)
EXTENDS Wire

CONSTANT
    Rekey         \* whether -rekey is positive

ASSUME ClientAssumption == Rekey \in BOOLEAN

VARIABLES
    phase,        \* phase[c]: "down", "handshake" (in main) or "running"
    addr,         \* the local UDP address of the process
    channel,      \* c.channel
    pending,      \* the initiator awaiting a response: local in main, then c.pending
    reading,      \* completeRehandshake: its initiator and the session just read
    cNonce,       \* the sending nonce of each session
    cSeen         \* the replay window of each session

\* What completeRehandshake keeps between its two holds of pendingMu.
Reads == [ini : Ini, sess : Sess]

ASSUME NoReadsAssumption == None \notin Reads

clientVars == <<phase, addr, channel, pending, reading, cNonce, cSeen>>

ClientTypeOK ==
    /\ phase \in [Client -> {"down", "handshake", "running"}]
    /\ addr \in [Client -> Addr \cup {None}]
    /\ channel \in [Client -> Channels(Sess \cup {NoSession})]
    /\ pending \in [Client -> Ini \cup {None}]
    /\ reading \in [Client -> Reads \cup {None}]
    /\ cNonce \in [Sess -> 0 .. MaxCounter + 1]
    /\ cSeen \in [Sess -> SUBSET Counter]

ClientInit ==
    /\ phase = [c \in Client |-> "down"]
    /\ addr = [c \in Client |-> None]
    /\ channel = [c \in Client |-> NewChannel(NoSession)]
    /\ pending = [c \in Client |-> None]
    /\ reading = [c \in Client |-> None]
    /\ cNonce = [s \in Sess |-> 0]
    /\ cSeen = [s \in Sess |-> {}]

\* The process is gone, with everything it held.
Exit(c) ==
    /\ phase' = [phase EXCEPT ![c] = "down"]
    /\ addr' = [addr EXCEPT ![c] = None]
    /\ channel' = [channel EXCEPT ![c] = NewChannel(NoSession)]
    /\ pending' = [pending EXCEPT ![c] = None]
    /\ reading' = [reading EXCEPT ![c] = None]
    /\ UNCHANGED <<cNonce, cSeen>>

\* A session is new to the client: its nonce and its window start afresh.
NewSession(s) ==
    /\ cNonce' = [cNonce EXCEPT ![s] = 0]
    /\ cSeen' = [cSeen EXCEPT ![s] = {}]

-----------------------------------------------------------------------------
(* main and handshake.                                                     *)

Start(c, a, i) ==
    /\ phase[c] = "down"
    /\ \A d \in Client : addr[d] # a
    /\ phase' = [phase EXCEPT ![c] = "handshake"]
    /\ addr' = [addr EXCEPT ![c] = a]
    /\ pending' = [pending EXCEPT ![c] = i]
    /\ Send(Msg1(a, i, c))
    /\ UNCHANGED <<channel, reading, cNonce, cSeen, sent, writes, disturbed>>

Answers(c, m) == m.type = "msg2" /\ m.ini = pending[c]

FinishHandshake(c, m) ==
    /\ phase[c] = "handshake"
    /\ Answers(c, m)
    /\ Receive(m)
    /\ phase' = [phase EXCEPT ![c] = "running"]
    /\ channel' = [channel EXCEPT ![c] = NewChannel(m.sess)]
    /\ pending' = [pending EXCEPT ![c] = None]
    /\ NewSession(m.sess)
    /\ UNCHANGED <<addr, reading, sent, writes, disturbed>>

\* Whatever else arrives first ends the process (log.Fatalf).
FailHandshake(c, m) ==
    /\ phase[c] = "handshake"
    /\ ~Answers(c, m)
    /\ Receive(m)
    /\ Exit(c)
    /\ UNCHANGED <<sent, writes, disturbed>>

\* The read deadline passes, the read fails, or the operator stops the client.
Stop(c) ==
    /\ phase[c] # "down"
    /\ Exit(c)
    /\ UNCHANGED <<net, sent, writes, disturbed>>

-----------------------------------------------------------------------------
(* rekeyLoop and the rehandshake.                                          *)

\* Mutant: no rehandshake is started while one is pending.
StartRehandshakeOnce(c, i) ==
    /\ Rekey
    /\ phase[c] = "running"
    /\ pending[c] = None
    /\ pending' = [pending EXCEPT ![c] = i]
    /\ Send(Msg1(addr[c], i, c))
    /\ UNCHANGED <<phase, addr, channel, reading, cNonce, cSeen,
                   sent, writes, disturbed>>

StartRehandshake(c, i) ==
    /\ Rekey
    /\ phase[c] = "running"
    /\ pending' = [pending EXCEPT ![c] = i]
    /\ Send(Msg1(addr[c], i, c))
    /\ UNCHANGED <<phase, addr, channel, reading, cNonce, cSeen,
                   sent, writes, disturbed>>

\* handleUDP is back at Receive.
Listening(c) == phase[c] = "running" /\ reading[c] = None

\* completeRehandshake reads pending and feeds it the response: it answers.
ReadResponse(c, m) ==
    /\ Listening(c)
    /\ Answers(c, m)
    /\ Receive(m)
    /\ reading' = [reading EXCEPT ![c] = [ini |-> m.ini, sess |-> m.sess]]
    /\ UNCHANGED <<phase, addr, channel, pending, cNonce, cSeen, sent, writes, disturbed>>

\* Unsolicited, or rejected by the pending initiator, which stays in place.
IgnoreResponse(c, m) ==
    /\ Listening(c)
    /\ m.type = "msg2"
    /\ ~Answers(c, m)
    /\ Receive(m)
    /\ UNCHANGED <<clientVars, sent, writes, disturbed>>

\* The lock is taken again: pending is cleared, whatever it holds by now, and
\* the channel rotates to the session read.
CompleteRehandshake(c) ==
    /\ phase[c] = "running"
    /\ reading[c] # None
    /\ pending' = [pending EXCEPT ![c] = None]
    /\ channel' = [channel EXCEPT ![c] = Rotated(@, reading[c].sess)]
    /\ reading' = [reading EXCEPT ![c] = None]
    /\ NewSession(reading[c].sess)
    /\ UNCHANGED <<phase, addr, net, sent, writes, disturbed>>

-----------------------------------------------------------------------------
(* handleUDP, handleTUN and keepAlive.                                     *)

ReceiveData(c, m) ==
    /\ Listening(c)
    /\ m.type = "data"
    /\ Receive(m)
    /\ IF Accepts(channel[c], cSeen, m)
       THEN /\ cSeen' = [cSeen EXCEPT ![m.sess] = @ \cup {m.seq}]
            /\ TunWrite(DatagramOf(m))
       ELSE UNCHANGED <<cSeen, writes>>
    /\ UNCHANGED <<phase, addr, channel, pending, reading, cNonce, sent, disturbed>>

SendUp(c, p) ==
    LET s == channel[c].cur
    IN  /\ phase[c] = "running"
        /\ Unread(p)
        /\ cNonce[s] <= MaxCounter
        /\ Send(Data("up", addr[c], s, cNonce[s], p))
        /\ cNonce' = [cNonce EXCEPT ![s] = @ + 1]
        /\ sent' = sent \cup {[dir |-> "up", addr |-> addr[c], pkt |-> p]}
        /\ UNCHANGED <<phase, addr, channel, pending, reading, cSeen,
                       writes, disturbed>>

KeepAlive(c) ==
    /\ phase[c] = "running"
    /\ Send(Ping(addr[c]))
    /\ UNCHANGED <<clientVars, sent, writes, disturbed>>

\* Time passes for the channel of a client.
ClientTick ==
    /\ channel' = [c \in Client |-> Lapsed(Aged(channel[c]))]
    /\ UNCHANGED <<phase, addr, pending, reading, cNonce, cSeen>>

ClientReceives(c, m) ==
    \/ FinishHandshake(c, m) \/ FailHandshake(c, m)
    \/ ReadResponse(c, m) \/ IgnoreResponse(c, m) \/ ReceiveData(c, m)

=============================================================================
