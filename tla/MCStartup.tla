------------------------------ MODULE MCStartup ------------------------------
(* Startup for TLC: the private keys are interchangeable.  -peers is empty, *)
(* has a key with stray bits, or is mistyped; -peers-file is empty, has     *)
(* another key, or is mistyped, and it may be impossible to read it.        *)
EXTENDS Startup, TLC

CONSTANTS a, b

Mistyped == [NoLines EXCEPT !.mistyped = TRUE]
Naming(k, strict) == [NoLines EXCEPT !.keys = {[peer |-> k, canonical |-> strict]}]

MCGiven == [flag : {NoLines, Naming(a, FALSE), Mistyped},
            file : {NoLines, Naming(b, TRUE), Mistyped},
            readable : BOOLEAN]

Symmetry == Permutations(Key)

=============================================================================
