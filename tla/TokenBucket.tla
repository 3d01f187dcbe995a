---------------------------- MODULE TokenBucket -----------------------------
(***************************************************************************)
(* The token bucket of src/pkg/ratelimit/ratelimit.go as operators on its  *)
(* value.  Tokens are counted in the smallest unit a tick can add, so that *)
(* the fractions of a token that the code keeps in a float are integers    *)
(* here: an event costs Cost units.                                        *)
(***************************************************************************)
EXTENDS Integers

CONSTANT Cost        \* units per event (one token)

ASSUME CostAssumption == Cost \in Nat \ {0}

\* A bucket starts full.
NewTokenBucket(capacity, now) == [tokens |-> capacity, last |-> now]

\* Mutant: the refill may exceed the capacity.
LevelUncapped(b, now, rate, capacity) == b.tokens + rate * (now - b.last)

\* What the bucket holds once it is refilled up to now.
Level(b, now, rate, capacity) ==
    LET refilled == b.tokens + rate * (now - b.last)
    IN  IF refilled > capacity THEN capacity ELSE refilled

\* Allow reports TRUE.
Allows(level) == level >= Cost

\* Mutant: the time of the refill is remembered only when the event is allowed.
AfterAllow(b, level, now) ==
    IF Allows(level) THEN [tokens |-> level - Cost, last |-> now]
    ELSE [tokens |-> level, last |-> b.last]

\* Mutant: an event that is refused loses the part of a token refilled so far.
AfterForgetful(b, level, now) ==
    [tokens |-> IF Allows(level) THEN level - Cost ELSE b.tokens, last |-> now]

\* The bucket after Allow: refilled, and a token less if there was one.
After(b, level, now) ==
    [tokens |-> IF Allows(level) THEN level - Cost ELSE level, last |-> now]

=============================================================================
