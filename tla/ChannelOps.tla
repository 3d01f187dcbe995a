----------------------------- MODULE ChannelOps -----------------------------
(***************************************************************************)
(* The two-session channel of src/pkg/session/channel.go as operators on   *)
(* its value: the current session, the previous one, and how long the      *)
(* previous one may still decrypt.  A session is modelled by its identity: *)
(* a frame authenticates under the session it was sealed with and no       *)
(* other (src/pkg/session/session.go, Encrypt and Decrypt).                *)
(***************************************************************************)
EXTENDS ReplayRule

CONSTANTS
    Grace,        \* ticks the previous session stays valid (DefaultRekeyGrace)
    NoSession     \* the nil *Session, and the origin of a frame nobody sealed

ASSUME GraceAssumption == Grace \in Nat \ {0}

Channels(Sess) == [cur : Sess, prev : Sess \cup {NoSession}, left : 0 .. Grace]

\* NewChannel: no previous session yet.
NewChannel(s) == [cur |-> s, prev |-> NoSession, left |-> 0]

\* Mutant: the deadline is not renewed, so the old session is cut off early.
RotatedLate(ch, s) == [cur |-> s, prev |-> ch.cur, left |-> Grace - 1]

\* Rotate: the current session becomes the previous one, whatever was there.
Rotated(ch, s) == [cur |-> s, prev |-> ch.cur, left |-> Grace]

\* One tick nearer to prevUntil.
Aged(ch) == [ch EXCEPT !.left = IF @ > 0 THEN @ - 1 ELSE 0]

\* An expired previous session is never consulted again: compositions forget it.
Lapsed(ch) == IF ch.left = 0 THEN [ch EXCEPT !.prev = NoSession] ELSE ch

\* The sessions a channel may still use.
Held(ch) == {ch.cur} \cup IF ch.left > 0 THEN {ch.prev} ELSE {}

\* Mutant: the previous session is usable whenever there is one.
PrevForever(ch) == ch.prev # NoSession

\* prevValid in Decrypt.
PrevValid(ch) == ch.prev # NoSession /\ ch.left > 0

\* Mutant: an authentic frame is handed up without asking the replay window.
OpensAnyway(s, seen, f) == f.sess = s

\* Session.Decrypt succeeds: the frame authenticates and is not a replay.
Opens(s, seen, f) == f.sess = s /\ Fresh(seen[s], f.seq)

\* Channel.Decrypt succeeds.  The previous session is consulted only if the
\* current one did not authenticate the frame, never after a replay.
Accepts(ch, seen, f) ==
    \/ Opens(ch.cur, seen, f)
    \/ f.sess # ch.cur /\ PrevValid(ch) /\ Opens(ch.prev, seen, f)

=============================================================================
