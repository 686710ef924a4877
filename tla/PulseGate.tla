------------------------------ MODULE PulseGate ------------------------------
(***************************************************************************)
(* What the pulse-width filter promises, whatever its timer does: a pulse  *)
(* adds one to the count at most, and only once it has lasted as long as   *)
(* the width in force.                                                     *)
(***************************************************************************)
EXTENDS Integers

CONSTANTS
  Source,       \* the inputs that bring pulses
  Widths,       \* the widths the filter can be set to
  CounterMod,   \* the counter's modulus
  MaxAge        \* ages from here on are equal

VARIABLES
  width,        \* the width in force
  count,
  lit,          \* the sources with a pulse in progress
  age,          \* how long each source's pulse has lasted
  counted       \* the sources whose pulse in progress has been counted

vars == <<width, count, lit, age, counted>>

Older(a) == IF a < MaxAge THEN a + 1 ELSE a

\* A pulse that is long enough is counted, once.
CountOne(s) ==
  /\ s \in lit \ counted /\ age'[s] >= width'
  /\ counted' = counted \cup {s}
  /\ count' = (count + 1) % CounterMod

CountNone == UNCHANGED <<counted, count>>

Init ==
  /\ width \in Widths \cup {0} /\ count = 0
  /\ lit \in SUBSET Source /\ age = [s \in Source |-> 0]
  /\ counted = lit

Begin(s) ==
  /\ s \notin lit
  /\ lit' = lit \cup {s}
  /\ UNCHANGED <<width, count, age, counted>>

End(s) ==
  /\ s \in lit
  /\ lit' = lit \ {s} /\ counted' = counted \ {s} /\ age' = [age EXCEPT ![s] = 0]
  /\ UNCHANGED <<width, count>>

TimePasses ==
  /\ age' = [s \in Source |-> IF s \in lit THEN Older(age[s]) ELSE age[s]]
  /\ CountNone \/ \E s \in Source : CountOne(s)
  /\ UNCHANGED <<width, lit>>

SetWidth ==
  /\ width' \in Widths
  /\ CountNone \/ \E s \in Source : CountOne(s)
  /\ UNCHANGED <<lit, age>>

\* The count restarts, and a pulse that is in progress is never counted.
Restart ==
  /\ count' = 0 /\ width' \in Widths \cup {0}
  /\ counted' = lit
  /\ UNCHANGED <<lit, age>>

Next ==
  \/ \E s \in Source : Begin(s) \/ End(s)
  \/ TimePasses \/ SetWidth \/ Restart

Spec == Init /\ [][Next]_vars
=============================================================================
