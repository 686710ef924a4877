----------------------------- MODULE PulseFilter -----------------------------
(***************************************************************************)
(* The pulse-width filter that src/hw_pulse_counter.c wires up and the CPU *)
(* never sees: the comparator on the meter's LED and the bench input both  *)
(* start and clear TIMER3 when a pulse begins, stop and clear it when one  *)
(* ends, and TIMER3 reaching CC[0] stops itself and adds one to TIMER2.    *)
(* The installer may reprogram CC[0] at any moment.                        *)
(*                                                                         *)
(* One tick is one microsecond.  The edges are those the comparator's      *)
(* hysteresis lets through.                                                *)
(***************************************************************************)
EXTENDS Integers

CONSTANTS
  Source,       \* the meter's LED and the bench input
  Widths,       \* the widths calibration lets through
  TimerMod,     \* TIMER3's modulus, 2^16
  CounterMod,   \* TIMER2's modulus, 2^32
  MaxAge        \* cap of the ghost ages: longer pulses are equal

ASSUME FilterAssumption ==
  /\ TimerMod \in Nat /\ CounterMod \in Nat \ {0, 1}
  /\ Widths # {} /\ Widths \subseteq 1..(TimerMod - 1)
  /\ MaxAge \in Nat /\ TimerMod <= MaxAge

VARIABLES
  phase,     \* off; live after hw_pulse_counter_init; dead after its failure
  width,     \* TIMER3 CC[0]
  running,   \* TIMER3 counts
  ticks,     \* TIMER3's value
  count,     \* TIMER2's value
  lit,       \* the sources with a pulse in progress
  age,       \* ghost: how long each source's pulse has lasted
  calm,      \* ghost: how long since its start or the last SetMinWidth
  crossed,   \* ghost: pulses whose start was missed, or with an edge of the other
             \* source since
  counted,   \* ghost: pulses in progress that need no count any more
  owner      \* ghost: the source whose edge started TIMER3 last

timers == <<running, ticks, count>>
pulses == <<lit, age, calm, crossed, counted>>
vars   == <<phase, width, timers, pulses, owner>>

Older(a) == IF a < MaxAge THEN a + 1 ELSE a

Init ==
  /\ phase = "off" /\ width = 0
  /\ running = FALSE /\ ticks = 0 /\ count = 0
  /\ lit \in SUBSET Source /\ crossed = lit /\ counted = lit
  /\ age = [s \in Source |-> 0] /\ calm = age
  /\ owner \in Source
-----------------------------------------------------------------------------
(***************************************************************************)
(* Power and set-up.  A pulse in progress when the events are connected    *)
(* shows no beginning.                                                     *)
(***************************************************************************)

TimersReset ==
  /\ running' = FALSE /\ ticks' = 0 /\ count' = 0
  /\ crossed' = lit /\ counted' = lit

Reset ==
  /\ phase # "off"
  /\ phase' = "off" /\ width' = 0
  /\ TimersReset
  /\ UNCHANGED <<lit, age, calm, owner>>

\* hw_pulse_counter_init, with the width from flash or from Kconfig.  An error
\* of any step returns before the PPI channels are enabled.
HwInit ==
  /\ phase = "off"
  /\ \/ phase' = "live" /\ width' \in Widths
     \/ phase' = "dead" /\ width' \in Widths \cup {0}
  /\ TimersReset
  /\ UNCHANGED <<lit, age, calm, owner>>
-----------------------------------------------------------------------------
(***************************************************************************)
(* The PPI channels.                                                       *)
(***************************************************************************)

\* Mutant of StartAndClear: the CLEAR fork is forgotten.
StartOnly(s) ==
  /\ running' = TRUE /\ UNCHANGED ticks
  /\ owner' = s

\* ch_up and ch_bench_h: START with a fork to CLEAR.
StartAndClear(s) ==
  /\ running' = TRUE /\ ticks' = 0
  /\ owner' = s

\* Mutant of StopAndClear: the bench input has no second GPIOTE channel.
NeverStops == UNCHANGED <<running, ticks>>

\* ch_down and ch_bench_l: STOP with a fork to CLEAR.
StopAndClear == running' = FALSE /\ ticks' = 0

\* ch_cnt: the compare event adds one to TIMER2.
CompareCounts ==
  /\ count' = (count + 1) % CounterMod
  /\ counted' = counted \cup {owner}

PulseBegins(s) ==
  /\ s \notin lit
  /\ lit' = lit \cup {s}
  /\ crossed' = IF phase = "live" THEN lit ELSE lit \cup {s}
  /\ IF phase = "live" THEN StartAndClear(s) ELSE UNCHANGED <<running, ticks, owner>>
  /\ UNCHANGED <<phase, width, count, age, calm, counted>>

PulseEnds(s) ==
  /\ s \in lit
  /\ lit' = lit \ {s}
  /\ crossed' = lit \ {s} /\ counted' = counted \ {s}
  /\ age' = [age EXCEPT ![s] = 0] /\ calm' = [calm EXCEPT ![s] = 0]
  /\ IF phase = "live" THEN StopAndClear ELSE UNCHANGED <<running, ticks>>
  /\ UNCHANGED <<phase, width, count, owner>>
-----------------------------------------------------------------------------
\* Mutant of Next16: a timer wider than its 16 bits.
Unwrapped(t) == t + 1

Next16(t) == IF t = TimerMod - 1 THEN 0 ELSE t + 1

\* Mutants of TimerStep: a timer that stops at its end; a compare that is missed
\* by one.
StepSaturates ==
  /\ running
  /\ ticks' = IF ticks < TimerMod - 1 THEN ticks + 1 ELSE ticks
  /\ IF ticks' = width
     THEN running' = FALSE /\ CompareCounts
     ELSE UNCHANGED <<running, count, counted>>

StepLate ==
  /\ running
  /\ ticks' = Next16(ticks)
  /\ IF ticks = width
     THEN running' = FALSE /\ CompareCounts
     ELSE UNCHANGED <<running, count, counted>>

\* The COMPARE0_STOP short: TIMER3 stops where it meets CC[0].
TimerStep ==
  /\ running
  /\ ticks' = Next16(ticks)
  /\ IF ticks' = width
     THEN running' = FALSE /\ CompareCounts
     ELSE UNCHANGED <<running, count, counted>>

TimerRests == ~running /\ UNCHANGED <<timers, counted>>

Grown(ages) == [s \in Source |-> IF s \in lit THEN Older(ages[s]) ELSE ages[s]]

Tick ==
  /\ TimerStep \/ TimerRests
  /\ age' = Grown(age) /\ calm' = Grown(calm)
  /\ UNCHANGED <<phase, width, lit, crossed, owner>>

\* hw_pulse_counter_set_min_width_us.  Writing the value TIMER3 holds may or may
\* not raise the compare event.
SetMinWidth(w) ==
  /\ phase = "live"
  /\ width' = w
  /\ calm' = [s \in Source |-> 0]
  /\ \/ UNCHANGED <<timers, counted>>
     \/ /\ running /\ ticks = w
        /\ running' = FALSE /\ CompareCounts
        /\ UNCHANGED ticks
  /\ UNCHANGED <<phase, lit, age, crossed, owner>>

Next ==
  \/ Reset \/ HwInit \/ Tick
  \/ \E s \in Source : PulseBegins(s) \/ PulseEnds(s)
  \/ \E w \in Widths : SetMinWidth(w)

Spec == Init /\ [][Next]_vars
-----------------------------------------------------------------------------
TypeOK ==
  /\ phase \in {"off", "live", "dead"}
  /\ width \in Widths \cup {0} /\ running \in BOOLEAN
  /\ ticks \in 0..(TimerMod - 1) /\ count \in 0..(CounterMod - 1)
  /\ lit \subseteq Source /\ crossed \subseteq lit /\ counted \subseteq lit
  /\ age \in [Source -> 0..MaxAge] /\ calm \in [Source -> 0..MaxAge]
  /\ owner \in Source

\* hw_pulse_counter.c:306-319: a pulse that begins after the set-up, meets no
\* edge of the other source and no reprogramming, is counted from the moment it
\* is as long as the threshold, and not before.
UndisturbedPulse ==
  \A s \in lit \ crossed : calm[s] = age[s] => (s \in counted <=> age[s] >= width)

\* What a threshold lowered below the running timer costs: the pulse is counted
\* after the wrap of TIMER3 if it lasts that long, for good lost if it does not.
LateNotNever ==
  \A s \in lit \ crossed : calm[s] >= TimerMod => s \in counted

\* hw_pulse_counter.c:151-153: "PCLK16M / HFCLK is only requested while a pulse
\* is in flight", and no longer than it takes to decide on it.
ClockOnlyForPulse == running => lit \ (crossed \cup counted) # {}

\* Whatever the timer does, with both sources on it and a threshold that moves:
\* no pulse is counted twice, and none that is shorter than the width in force.
Gate == INSTANCE PulseGate
GateSpec == Gate!Spec
=============================================================================
