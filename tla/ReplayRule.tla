----------------------------- MODULE ReplayRule -----------------------------
(***************************************************************************)
(* The rule of the anti-replay window (src/pkg/session/replay.go), apart   *)
(* from how the window is stored: which sequence numbers are fresh, given  *)
(* the set of those accepted so far.  ReplayWindow shows that the bitmap   *)
(* of the code follows this rule; the channel and the tunnel are built on  *)
(* the rule itself.                                                        *)
(***************************************************************************)
EXTENDS Integers

CONSTANTS
    Window,      \* replayWindowBits: how far behind the highest number is still judged
    MaxCounter   \* the largest sequence number of a session (2^64 - 2 in the code)

ASSUME WindowAssumption == Window \in Nat \ {0}
ASSUME CounterAssumption == MaxCounter \in Nat

Counter == 0 .. MaxCounter

(***************************************************************************)
(* n is fresh after the numbers in S were accepted: it is none of them and *)
(* none of them is Window or more ahead of it.                             *)
(***************************************************************************)
Fresh(S, n) == n \notin S /\ \A m \in S : m - n < Window

=============================================================================
