--------------------------- MODULE PatternArbiter ---------------------------
(***************************************************************************)
(* What the LED promises its callers: one pattern at a time, displaced     *)
(* only by a stronger one, never resumed afterwards, and a fatal pattern   *)
(* that nothing ends.                                                      *)
(***************************************************************************)
EXTENDS LedPriority

VARIABLE shown

Init == shown = "NONE"

Show(p) == /\ shown = "NONE" \/ Prio[p] < Prio[shown]
           /\ shown' = p

Hide    == /\ shown \notin {"NONE", "FATAL"}
           /\ shown' = "NONE"

Next == Hide \/ \E p \in Pattern : Show(p)

Spec == Init /\ [][Next]_shown
=============================================================================
