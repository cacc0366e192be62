---------------------------- MODULE ReplayWindow ----------------------------
(***************************************************************************)
(* What a replay filter promises (RFC 6479, which replay.go implements):   *)
(* a counter passes once, if it is below the limit and newer than, or at   *)
(* most Window behind, the highest counter that passed.                    *)
(***************************************************************************)
EXTENDS Integers

CONSTANTS Counters, Limit, Window

VARIABLES passed,   \* how often each counter passed
          highest,  \* the highest counter that passed, 0 at first
          verdict   \* the last answer: [counter, ok]

vars == <<passed, highest, verdict>>

InWindow(c) == c > highest \/ highest - c <= Window
Passes(c) == c < Limit /\ passed[c] = 0 /\ InWindow(c)

Init ==
    /\ passed = [c \in Counters |-> 0]
    /\ highest = 0
    /\ verdict = [counter |-> -1, ok |-> FALSE]

Validate(c) ==
    /\ verdict' = [counter |-> c, ok |-> Passes(c)]
    /\ IF Passes(c)
       THEN /\ passed' = [passed EXCEPT ![c] = 1]
            /\ highest' = IF c > highest THEN c ELSE highest
       ELSE UNCHANGED <<passed, highest>>

Next == \E c \in Counters : Validate(c)

Spec == Init /\ [][Next]_vars

=============================================================================
