----------------------------- MODULE VpnServer ------------------------------
(***************************************************************************)
(* The server (src/cmd/server/main.go).  Three goroutines share the table  *)
(* of clients: handleUDP, which serves one datagram after the other,       *)
(* handleTUN and cleanupClients.  An action is what one of them does under *)
(* one hold of clientsMu, with the local work around it.                   *)
(*                                                                         *)
(* Table entries are objects: handleData and handleTUN keep using an entry *)
(* after they have released the lock, also when it has been deleted from   *)
(* the table meanwhile.  An object that nothing refers to is forgotten.    *)
(***************************************************************************)
EXTENDS Wire

CONSTANTS
    Entry,        \* identities of *Client objects (a bound on those in use)
    Allowed,      \* the allowlist
    IdleLimit,    \* ticks of silence after which a client is removed (2 minutes)
    SweepPeriod   \* ticks between two sweeps of the table (30 seconds)

ASSUME ServerAssumption ==
    /\ Entry \subseteq Nat /\ None \notin Entry
    /\ Allowed \subseteq Client
    /\ IdleLimit \in Nat /\ SweepPeriod \in Nat \ {0}

VARIABLES
    clients,      \* s.clients: address -> entry
    entry,        \* the *Client objects
    reply,        \* handleUDP: the response still to be sent, or None
    taken,        \* handleUDP: the packet just decrypted and its entry
    sweep,        \* cleanupClients: ticks since the last sweep
    round,        \* handleTUN: the packet read and the entries still to serve
    sNonce,       \* the sending nonce of each session
    sSeen,        \* the replay window of each session
    owner         \* history: the key each session was negotiated with

serverVars == <<clients, entry, reply, taken, sweep, round, sNonce, sSeen, owner>>

Registered == {a \in Addr : clients[a] # None}
Holding == {clients[a] : a \in Registered}
NothingTaken == [entry |-> None, pkt |-> None]
NoRound == [pkt |-> None, todo |-> {}]

\* The objects some goroutine or the table refers to, as the heap keeps them.
Kept(heap, cl, tk, rd) ==
    [e \in Entry |->
        IF (\E a \in Addr : cl[a] = e) \/ tk.entry = e \/ e \in rd.todo
        THEN heap[e] ELSE None]

\* The age of lastSeen, in ticks; beyond the last that matters it stays.
Ages == 0 .. IdleLimit + SweepPeriod + 1
Older(n) == IF n + 1 \in Ages THEN n + 1 ELSE n

ClientObject == [addr : Addr, ch : Channels(Sess), idle : Ages]

\* The nil pointer is no object.
ASSUME NoObjectAssumption == None \notin ClientObject

ServerTypeOK ==
    /\ clients \in [Addr -> Entry \cup {None}]
    /\ entry \in [Entry -> ClientObject \cup {None}]
    /\ reply = None \/ reply \in [type : {"msg2"}, addr : Addr, ini : Ini, sess : Sess]
    /\ taken = NothingTaken \/ (taken.entry \in Entry /\ taken.pkt \in Datagram)
    /\ sweep \in 0 .. SweepPeriod
    /\ round.pkt \in DownPacket \cup {None} /\ round.todo \subseteq Entry
    /\ sNonce \in [Sess -> 0 .. MaxCounter + 1]
    /\ sSeen \in [Sess -> SUBSET Counter]
    /\ owner \in [Sess -> Client \cup {None}]

ServerInit ==
    /\ clients = [a \in Addr |-> None]
    /\ entry = [e \in Entry |-> None]
    /\ reply = None
    /\ taken = NothingTaken
    /\ sweep = 0
    /\ round = NoRound
    /\ sNonce = [s \in Sess |-> 0]
    /\ sSeen = [s \in Sess |-> {}]
    /\ owner = [s \in Sess |-> None]

\* handleUDP is back at Receive.
UdpReady == reply = None /\ taken = NothingTaken

-----------------------------------------------------------------------------
(* handleUDP: handshakes.                                                  *)

\* Over a rate limit, not a handshake for this server, or an unauthorised key.
RefuseHandshake(m) ==
    /\ UdpReady
    /\ m.type = "msg1"
    /\ "limit" \in Faults \/ m.key \notin Allowed
    /\ Receive(m)
    /\ UNCHANGED <<serverVars, sent, writes, disturbed>>

\* Mutant: the key is not looked up in the allowlist.
Anyone(k) == k \in Client

Authorised(k) == k \in Allowed

\* Mutant: a known address is seen again, but keeps its old session.
RegisterOnce(a, s) ==
    \/ /\ a \in Registered
       /\ entry' = [entry EXCEPT ![clients[a]].idle = 0]
       /\ UNCHANGED clients
    \/ /\ a \notin Registered
       /\ \E e \in Free(Entry, {e \in Entry : entry[e] # None}) :
             /\ clients' = [clients EXCEPT ![a] = e]
             /\ entry' = [entry EXCEPT ![e] =
                            [addr |-> a, ch |-> NewChannel(s), idle |-> 0]]

\* The table and the objects once address a has session s: a known address
\* rotates its channel, a new one gets an entry.
Register(a, s) ==
    \/ /\ a \in Registered
       /\ entry' = [entry EXCEPT ![clients[a]].ch = Rotated(@, s),
                                 ![clients[a]].idle = 0]
       /\ UNCHANGED clients
    \/ /\ a \notin Registered
       /\ \E e \in Free(Entry, {e \in Entry : entry[e] # None}) :
             /\ clients' = [clients EXCEPT ![a] = e]
             /\ entry' = [entry EXCEPT ![e] =
                            [addr |-> a, ch |-> NewChannel(s), idle |-> 0]]

\* The keys are rotated, or the client registered, before the response is sent.
AcceptHandshake(m, s) ==
    /\ UdpReady
    /\ m.type = "msg1"
    /\ Authorised(m.key)
    /\ Receive(m)
    /\ Register(m.addr, s)
    /\ reply' = Msg2(m.addr, m.ini, s)
    /\ sNonce' = [sNonce EXCEPT ![s] = 0]
    /\ sSeen' = [sSeen EXCEPT ![s] = {}]
    /\ owner' = [owner EXCEPT ![s] = m.key]
    /\ UNCHANGED <<taken, sweep, round, sent, writes, disturbed>>

SendReply ==
    /\ reply # None
    /\ Send(reply)
    /\ reply' = None
    /\ UNCHANGED <<clients, entry, taken, sweep, round, sNonce, sSeen, owner,
                   sent, writes, disturbed>>

-----------------------------------------------------------------------------
(* handleUDP: data and pings.                                              *)

ServerAccepts(m) ==
    /\ m.addr \in Registered
    /\ Accepts(entry[clients[m.addr]].ch, sSeen, m)

\* The lookup and Decrypt; the entry is used after the lock was released.
DecryptData(m) ==
    /\ UdpReady
    /\ m.type = "data"
    /\ ServerAccepts(m)
    /\ Receive(m)
    /\ sSeen' = [sSeen EXCEPT ![m.sess] = @ \cup {m.seq}]
    /\ taken' = [entry |-> clients[m.addr], pkt |-> DatagramOf(m)]
    /\ UNCHANGED <<clients, entry, reply, sweep, round, sNonce, owner,
                   sent, writes, disturbed>>

\* An unknown client, or a frame that does not decrypt.
DropData(m) ==
    /\ UdpReady
    /\ m.type = "data"
    /\ ~ServerAccepts(m)
    /\ Receive(m)
    /\ UNCHANGED <<serverVars, sent, writes, disturbed>>

\* lastSeen of the entry that decrypted, then the write to the TUN device.
FinishData ==
    /\ taken # NothingTaken
    /\ TunWrite(taken.pkt)
    /\ taken' = NothingTaken
    /\ entry' = Kept([entry EXCEPT ![taken.entry].idle = 0], clients, NothingTaken, round)
    /\ UNCHANGED <<clients, reply, sweep, round, sNonce, sSeen, owner,
                   net, sent, disturbed>>

HandlePing(m) ==
    /\ UdpReady
    /\ m.type = "ping"
    /\ Receive(m)
    /\ IF m.addr \in Registered
       THEN entry' = [entry EXCEPT ![clients[m.addr]].idle = 0]
       ELSE UNCHANGED entry
    /\ UNCHANGED <<clients, reply, taken, sweep, round, sNonce, sSeen, owner,
                   sent, writes, disturbed>>

-----------------------------------------------------------------------------
(* handleTUN: a packet goes to every client of a snapshot of the table.    *)

ReadTun(p) ==
    /\ round = NoRound
    /\ Unread(p)
    /\ Holding # {}
    /\ round' = [pkt |-> p, todo |-> Holding]
    /\ UNCHANGED <<clients, entry, reply, taken, sweep, sNonce, sSeen, owner,
                   net, sent, writes, disturbed>>

\* One client of the snapshot; past the last nonce Encrypt fails and it is skipped.
SendDown(e) ==
    LET s == entry[e].ch.cur
        a == entry[e].addr
        left == IF round.todo = {e} THEN NoRound ELSE [round EXCEPT !.todo = @ \ {e}]
    IN  /\ e \in round.todo
        /\ IF sNonce[s] <= MaxCounter
           THEN /\ Send(Data("down", a, s, sNonce[s], round.pkt))
                /\ sNonce' = [sNonce EXCEPT ![s] = @ + 1]
                /\ sent' = sent \cup {[dir |-> "down", addr |-> a, pkt |-> round.pkt]}
           ELSE UNCHANGED <<net, sNonce, sent>>
        /\ round' = left
        /\ entry' = Kept(entry, clients, taken, left)
        /\ UNCHANGED <<clients, reply, taken, sweep, sSeen, owner, writes, disturbed>>

-----------------------------------------------------------------------------
(* cleanupClients, the passing of time, and a restart of the process.      *)

\* Mutant: a client is given one tick too many.
SilentTooLong(e) == entry[e].idle > IdleLimit + 1

\* Since(lastSeen) > 2 minutes.
Silent(e) == entry[e].idle > IdleLimit

CleanupClients ==
    LET kept == [a \in Addr |-> IF a \in Registered /\ ~Silent(clients[a])
                                THEN clients[a] ELSE None]
    IN  /\ sweep = SweepPeriod
        /\ sweep' = 0
        /\ clients' = kept
        /\ entry' = Kept(entry, kept, taken, round)
        /\ disturbed' = (disturbed \/ kept # clients)
        /\ UNCHANGED <<reply, taken, round, sNonce, sSeen, owner, net, sent, writes>>

\* A tick ages every entry and every grace; a sweep that is due comes first.
ServerTick ==
    /\ sweep < SweepPeriod
    /\ sweep' = sweep + 1
    /\ entry' = [e \in Entry |->
                   IF entry[e] = None THEN None
                   ELSE [entry[e] EXCEPT !.ch = Lapsed(Aged(@)), !.idle = Older(@)]]
    /\ UNCHANGED <<clients, reply, taken, round, sNonce, sSeen, owner>>

\* The process ends and is started again: the table lives only in memory.
ServerRestart ==
    /\ clients' = [a \in Addr |-> None]
    /\ entry' = [e \in Entry |-> None]
    /\ reply' = None
    /\ taken' = NothingTaken
    /\ sweep' = 0
    /\ round' = NoRound
    /\ disturbed' = TRUE
    /\ UNCHANGED <<sNonce, sSeen, owner, net, sent, writes>>

\* What the server does with the datagrams that need no new session.
ServerReceives(m) ==
    RefuseHandshake(m) \/ DecryptData(m) \/ DropData(m) \/ HandlePing(m)

=============================================================================
