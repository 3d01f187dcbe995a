---------------------------- MODULE ReplayFilter ----------------------------
(***************************************************************************)
(* What an anti-replay filter promises: it answers each query by the rule, *)
(* remembering every number it has accepted.                               *)
(***************************************************************************)
EXTENDS ReplayRule

VARIABLES
    accepted,    \* every sequence number accepted so far
    answer       \* the last query and what it returned

Init ==
    /\ accepted = {}
    /\ answer = [seq |-> 0, ok |-> FALSE]

Admit(n) ==
    /\ Fresh(accepted, n)
    /\ accepted' = accepted \cup {n}
    /\ answer' = [seq |-> n, ok |-> TRUE]

Refuse(n) ==
    /\ ~Fresh(accepted, n)
    /\ answer' = [seq |-> n, ok |-> FALSE]
    /\ UNCHANGED accepted

Next == \E n \in Counter : Admit(n) \/ Refuse(n)

Spec == Init /\ [][Next]_<<accepted, answer>>

=============================================================================
