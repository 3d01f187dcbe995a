------------------------------ MODULE Channel -------------------------------
(***************************************************************************)
(* One receiving Channel (src/pkg/session/channel.go) and everything that  *)
(* can reach it: the peer seals frames under any negotiated session, the   *)
(* network delivers any of them at any time and any number of times, or    *)
(* damages them, sessions are negotiated and rotated in, and time passes.  *)
(*                                                                         *)
(* Decrypt and Rotate run on the same goroutine (handleUDP of the client   *)
(* and of the server), so each is one step here.                           *)
(***************************************************************************)
EXTENDS ChannelOps, FiniteSets

CONSTANT MaxSessions      \* bound on the sessions negotiated

ASSUME MaxSessionsAssumption == MaxSessions \in Nat \ {0}

Session == 1 .. MaxSessions

ASSUME NoSessionAssumption == NoSession \notin Session

Frame == [sess : Session, seq : Counter]

VARIABLES
    ch,          \* the channel
    seen,        \* seen[s]: the numbers the replay window of s has accepted
    next,        \* next[s]: the peer's sending nonce under s
    made,        \* the number of sessions negotiated; session k is the k-th
    installed,   \* history: the sessions that are or were current here
    retired,     \* history: retired[s], ticks since s was current, up to Grace
    hasty,       \* history: some rotation came within the grace of another
    writes       \* writes[f]: how often frame f was handed to the TUN device

vars == <<ch, seen, next, made, installed, retired, hasty, writes>>
history == <<installed, retired, hasty>>

TypeOK ==
    /\ ch \in Channels(Session)
    /\ seen \in [Session -> SUBSET Counter]
    /\ next \in [Session -> 0 .. MaxCounter + 1]
    /\ made \in Session
    /\ installed \subseteq 1 .. made
    /\ retired \in [Session -> 0 .. Grace]
    /\ hasty \in BOOLEAN
    /\ writes \in [Frame -> 0 .. 1]

Init ==
    /\ made = 1
    /\ ch = NewChannel(1)
    /\ seen = [s \in Session |-> {}]
    /\ next = [s \in Session |-> 0]
    /\ installed = {1}
    /\ retired = [s \in Session |-> 0]
    /\ hasty = FALSE
    /\ writes = [f \in Frame |-> 0]

\* A handshake somewhere yields a new session; the peer may use it at once.
Negotiate ==
    /\ made < MaxSessions
    /\ made' = made + 1
    /\ UNCHANGED <<ch, seen, next, history, writes>>

\* The peer seals the next frame of session s.  Past the last nonce Encrypt fails.
Seal(s) ==
    /\ s <= made
    /\ next[s] <= MaxCounter
    /\ next' = [next EXCEPT ![s] = @ + 1]
    /\ UNCHANGED <<ch, seen, made, history, writes>>

Sealed == {f \in Frame : f.seq < next[f.sess]}

\* What may arrive: a sealed frame, or bytes with some number that nobody sealed.
Arriving == Sealed \cup [sess : {NoSession}, seq : Counter]

Open(f) ==
    /\ Accepts(ch, seen, f)
    /\ seen' = [seen EXCEPT ![f.sess] = @ \cup {f.seq}]
    /\ writes' = [writes EXCEPT ![f] = @ + 1]
    /\ UNCHANGED <<ch, next, made, history>>

Reject(f) ==
    /\ ~Accepts(ch, seen, f)
    /\ UNCHANGED vars

\* Mutant: the window of the current session records the claimed number of a
\* frame before the frame has been authenticated.
DecryptUnauthenticated(f) ==
    \/ Open(f)
    \/ /\ ~Accepts(ch, seen, f)
       /\ seen' = [seen EXCEPT ![ch.cur] = @ \cup {f.seq}]
       /\ UNCHANGED <<ch, next, made, history, writes>>

Decrypt(f) == Open(f) \/ Reject(f)

Rotate(s) ==
    /\ s <= made
    /\ s \notin installed
    /\ ch' = Rotated(ch, s)
    /\ installed' = installed \cup {s}
    /\ retired' = [retired EXCEPT ![ch.cur] = 0]
    /\ hasty' = (hasty \/ ch.left > 0)
    /\ UNCHANGED <<seen, next, made, writes>>

Tick ==
    /\ ch' = Aged(ch)
    /\ retired' = [s \in Session |->
                     IF s \in installed \ {ch.cur} /\ retired[s] < Grace
                     THEN retired[s] + 1 ELSE retired[s]]
    /\ UNCHANGED <<seen, next, made, installed, hasty, writes>>

Next ==
    \/ Negotiate
    \/ \E s \in Session : Seal(s) \/ Rotate(s)
    \/ \E f \in Arriving : Decrypt(f)
    \/ Tick

Spec == Init /\ [][Next]_vars

-----------------------------------------------------------------------------

(***************************************************************************)
(* The channel hands up only frames the peer sealed, and each at most      *)
(* once, however often the network delivers it and whatever rotations      *)
(* happen in between.                                                      *)
(***************************************************************************)
AtMostOnce == INSTANCE Delivery WITH Datagram <- Frame, sent <- Sealed
DeliverySpec == AtMostOnce!Spec

(***************************************************************************)
(* The replay windows hold exactly the frames handed up: a frame that does *)
(* not authenticate, or is refused, never moves a window, so it cannot     *)
(* make the channel refuse genuine traffic (session.go: "Only update the   *)
(* replay window after authentication").                                   *)
(***************************************************************************)
SeenIsDelivered ==
    \A s \in Session : seen[s] = {n \in Counter : writes[[sess |-> s, seq |-> n]] > 0}

(***************************************************************************)
(* Old keys expire: nothing is handed up under a session that was never    *)
(* rotated in, or that stopped being current Grace or more ticks ago.      *)
(***************************************************************************)
OldKeysExpire ==
    [][\A f \in Frame : writes'[f] # writes[f] =>
          f.sess \in installed /\ (f.sess = ch.cur \/ retired[f.sess] < Grace)]_vars

GraceHonoured ==
    \A s \in installed \ {ch.cur} :
       retired[s] < Grace => PrevValid(ch) /\ ch.prev = s

(***************************************************************************)
(* The grace is kept as long as rotations are at least Grace apart: every  *)
(* session replaced less than Grace ticks ago still decrypts.              *)
(***************************************************************************)
GraceKept == ~hasty => GraceHonoured

=============================================================================
