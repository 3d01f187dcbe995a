---------------------------- MODULE ReplayWindow ----------------------------
(***************************************************************************)
(* The sliding window of src/pkg/session/replay.go.  The bitmap is an      *)
(* array of words, each a set of bit positions; a sequence number owns the *)
(* bit at its residue modulo Window, so a bit is reused every Window       *)
(* numbers and has to be cleared when the window slides over it.           *)
(*                                                                         *)
(* One call of accept, which holds w.mu from start to end, is one step;    *)
(* its five outcomes are the five actions.                                 *)
(***************************************************************************)
EXTENDS ReplayRule

CONSTANT WordBits    \* bits of a word of the bitmap (64)

ASSUME WordAssumption == WordBits \in Nat \ {0} /\ (Window % WordBits) = 0

VARIABLES
    started,     \* w.started
    last,        \* w.last
    bitmap,      \* w.bitmap
    accepted,    \* history: the numbers accept has returned true for
    answer       \* the last call and what it returned

vars == <<started, last, bitmap, accepted, answer>>

Words == 0 .. (Window \div WordBits) - 1
Bits == 0 .. WordBits - 1

\* Mutant: the position in a word is off by one bit.
WideBit(n) == (n % Window) % (WordBits + 1)

\* The word and the bit of a sequence number (bit in replay.go).
Word(n) == (n % Window) \div WordBits
Bit(n) == (n % Window) % WordBits

IsSet(n) == Bit(n) \in bitmap[Word(n)]

WithBit(map, n) == [map EXCEPT ![Word(n)] = @ \cup {Bit(n)}]

WithoutBits(map, S) ==
    [w \in Words |-> {b \in map[w] : \A s \in S : Word(s) = w => Bit(s) # b}]

\* Mutant: the first position slid over is not cleared.
SlidShort(n) ==
    IF n - last >= Window
    THEN [w \in Words |-> {}]
    ELSE WithoutBits(bitmap, (last + 2) .. (n - 1))

\* The bitmap after the window has slid from last to just below n.
Slid(n) ==
    IF n - last >= Window
    THEN [w \in Words |-> {}]
    ELSE WithoutBits(bitmap, (last + 1) .. (n - 1))

TypeOK ==
    /\ started \in BOOLEAN
    /\ last \in Counter
    /\ bitmap \in [Words -> SUBSET Bits]
    /\ accepted \subseteq Counter
    /\ answer \in [seq : Counter, ok : BOOLEAN]

Init ==
    /\ started = FALSE
    /\ last = 0
    /\ bitmap = [w \in Words |-> {}]
    /\ accepted = {}
    /\ answer = [seq |-> 0, ok |-> FALSE]

Returns(n, ok) ==
    /\ answer' = [seq |-> n, ok |-> ok]
    /\ accepted' = IF ok THEN accepted \cup {n} ELSE accepted

\* The first authenticated packet establishes the window.
First(n) ==
    /\ ~started
    /\ started' = TRUE
    /\ last' = n
    /\ bitmap' = WithBit(bitmap, n)
    /\ Returns(n, TRUE)

\* A number above the highest: slide the window, then record it.
Advance(n) ==
    /\ started
    /\ n > last
    /\ last' = n
    /\ bitmap' = WithBit(Slid(n), n)
    /\ Returns(n, TRUE)
    /\ UNCHANGED started

\* A number that has fallen behind the window.
TooOld(n) ==
    /\ started
    /\ n <= last
    /\ last - n >= Window
    /\ Returns(n, FALSE)
    /\ UNCHANGED <<started, last, bitmap>>

\* Mutant: no number is too old.
NoLowerEnd(n) == started /\ n <= last

InWindow(n) == started /\ n <= last /\ last - n < Window

\* A number of the window whose bit is set.
Duplicate(n) ==
    /\ InWindow(n)
    /\ IsSet(n)
    /\ Returns(n, FALSE)
    /\ UNCHANGED <<started, last, bitmap>>

\* Mutant: reordered traffic moves the high-water mark as well.
LateMovesMark(n) ==
    /\ InWindow(n)
    /\ ~IsSet(n)
    /\ last' = n
    /\ bitmap' = WithBit(bitmap, n)
    /\ Returns(n, TRUE)
    /\ UNCHANGED started

\* A number of the window not seen yet: reordered traffic.
Late(n) ==
    /\ InWindow(n)
    /\ ~IsSet(n)
    /\ bitmap' = WithBit(bitmap, n)
    /\ Returns(n, TRUE)
    /\ UNCHANGED <<started, last>>

Accept(n) == First(n) \/ Advance(n) \/ TooOld(n) \/ Duplicate(n) \/ Late(n)

Next == \E n \in Counter : Accept(n)

Spec == Init /\ [][Next]_vars

-----------------------------------------------------------------------------

(***************************************************************************)
(* The high-water mark w.last is the highest number accepted, and the      *)
(* window is started exactly when something was accepted: it never moves   *)
(* back or ahead of the traffic.                                           *)
(***************************************************************************)
HighWater ==
    /\ started <=> accepted # {}
    /\ started => last \in accepted /\ \A m \in accepted : m <= last

(***************************************************************************)
(* Inside the window the bitmap is exact: the bit of a number is set iff   *)
(* that very number was accepted, whatever older numbers shared the bit    *)
(* before the window slid over it.                                         *)
(***************************************************************************)
BitmapExact ==
    started => \A n \in Counter : InWindow(n) => (IsSet(n) <=> n \in accepted)

(***************************************************************************)
(* The window implements the abstract filter: accept(n) returns true       *)
(* exactly when n is fresh, so no number is accepted twice and none behind *)
(* the window, and nothing fresh is refused.                               *)
(***************************************************************************)
Filter == INSTANCE ReplayFilter
FilterSpec == Filter!Spec

=============================================================================
