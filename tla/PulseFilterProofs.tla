------------------------- MODULE PulseFilterProofs -------------------------
(***************************************************************************)
(* Proofs about the pulse-width filter, for any number of sources, any set *)
(* of widths and any width of TIMER3 and TIMER2: what it counts, when it   *)
(* holds the fast clock, and that it implements PulseGate.                 *)
(***************************************************************************)
EXTENDS PulseFilter, TLAPS

\* The types of everything but TIMER3's running, which the provers treat apart.
ValuesOK ==
  /\ phase \in {"off", "live", "dead"}
  /\ width \in Widths \cup {0}
  /\ ticks \in 0..(TimerMod - 1) /\ count \in 0..(CounterMod - 1)
  /\ lit \subseteq Source /\ crossed \subseteq lit /\ counted \subseteq lit
  /\ age \in [Source -> 0..MaxAge] /\ calm \in [Source -> 0..MaxAge]
  /\ owner \in Source

\* What a source without a pulse, and the width of a live filter, look like.
Resting ==
  /\ \A s \in Source \ lit : age[s] = 0 /\ calm[s] = 0
  /\ phase = "live" => width \in Widths

\* TIMER3 measures the pulse of owner, one that is still to be decided, and is
\* never ahead of it.
Measures ==
  running => /\ phase = "live"
             /\ owner \in lit \ (crossed \cup counted)
             /\ ticks <= age[owner]

\* An undecided pulse that no other edge met is the one being measured.
Undecided == \A s \in lit \ crossed : s \notin counted => running /\ owner = s

\* How long ago TIMER3 was at the width, in its own modulus.
SinceWidth == IF ticks >= width THEN ticks - width ELSE ticks - width + TimerMod

\* Since the last reprogramming TIMER3 has not met the width.
Approaches ==
  running => /\ calm[owner] <= SinceWidth
             /\ calm[owner] = age[owner] => ticks = age[owner] /\ ticks < width

\* A pulse is counted at the width, unless the width has moved since.
CountedInTime ==
  \A s \in lit \ crossed :
    /\ calm[s] <= age[s]
    /\ s \in counted => age[s] > 0
    /\ s \in counted /\ calm[s] = age[s] => age[s] >= width

IInv == /\ TypeOK /\ Resting /\ Measures /\ Undecided
        /\ Approaches /\ CountedInTime

\* What the assumption says of the bounds, one by one.
LEMMA Bounds ==
  /\ TimerMod \in Nat /\ 1 < TimerMod
  /\ CounterMod \in Nat /\ 1 < CounterMod
  /\ MaxAge \in Nat /\ TimerMod <= MaxAge
  /\ \A w \in Widths : w \in Nat /\ 0 < w /\ w < TimerMod
  <1>1. PICK w \in Widths : w \in 1..(TimerMod - 1)
    BY FilterAssumption
  <1> QED
    BY <1>1, FilterAssumption

\* One more tick of the 16-bit timer stays in its 16 bits.
LEMMA OneMoreTick ==
  ASSUME NEW t \in 0..(TimerMod - 1)
  PROVE  Next16(t) \in 0..(TimerMod - 1)
  BY FilterAssumption DEF Next16

\* One more pulse stays in the 32 bits of TIMER2.
LEMMA OneMoreCount ==
  ASSUME NEW c \in 0..(CounterMod - 1)
  PROVE  (c + 1) % CounterMod \in 0..(CounterMod - 1)
  <1>1. CounterMod \in Nat \ {0} /\ c + 1 \in Nat
    BY FilterAssumption
  <1> QED
    BY <1>1

\* A tick ages the pulses in progress by one, up to the cap, and no other.
LEMMA GrownAges ==
  ASSUME NEW a \in [Source -> 0..MaxAge]
  PROVE  /\ Grown(a) \in [Source -> 0..MaxAge]
         /\ \A s \in Source \ lit : Grown(a)[s] = a[s]
         /\ \A s \in lit \cap Source :
              Grown(a)[s] = IF a[s] < MaxAge THEN a[s] + 1 ELSE MaxAge
  BY FilterAssumption DEF Grown, Older

LEMMA InitIInv == Init => IInv
  <1> SUFFICES ASSUME Init PROVE IInv
    OBVIOUS
  <1> USE Bounds DEF Init
  <1>1. TypeOK
    <2>1. running \in BOOLEAN
      BY DEF TypeOK
    <2>2. ValuesOK
      BY DEF TypeOK, ValuesOK
    <2> QED
      BY <2>1, <2>2 DEF TypeOK, ValuesOK
  <1>2. Resting /\ Measures /\ Undecided
    BY DEF Resting, Measures, Undecided
  <1>3. Approaches /\ CountedInTime
    BY DEF Approaches, CountedInTime
  <1> QED
    BY <1>1, <1>2, <1>3 DEF IInv
-----------------------------------------------------------------------------
(***************************************************************************)
(* Each action keeps the invariant.                                        *)
(***************************************************************************)

\* After a reset, a set-up or the end of a pulse nothing is being measured and
\* no pulse in progress is left to decide on.
LEMMA CleanSlate ==
  ASSUME TypeOK', Resting', ~running', lit' \subseteq crossed'
  PROVE  IInv'
  BY DEF IInv, Measures, Undecided, Approaches, CountedInTime

LEMMA SetUpKeeps == IInv /\ (Reset \/ HwInit) => IInv'
  <1> SUFFICES ASSUME IInv, Reset \/ HwInit PROVE IInv'
    OBVIOUS
  <1> USE Bounds DEF IInv
  <1>1. TypeOK'
    <2>1. running' \in BOOLEAN
      BY DEF TypeOK, Reset, HwInit, TimersReset
    <2>2. ValuesOK'
      BY DEF TypeOK, ValuesOK, Reset, HwInit, TimersReset
    <2> QED
      BY <2>1, <2>2 DEF TypeOK, ValuesOK
  <1>2. Resting'
    BY DEF Resting, Reset, HwInit, TimersReset
  <1>3. ~running' /\ lit' \subseteq crossed'
    BY DEF Reset, HwInit, TimersReset
  <1> QED
    BY <1>1, <1>2, <1>3, CleanSlate

LEMMA EndKeeps == ASSUME NEW s \in Source PROVE IInv /\ PulseEnds(s) => IInv'
  <1> SUFFICES ASSUME IInv, PulseEnds(s) PROVE IInv'
    OBVIOUS
  <1> USE Bounds DEF IInv
  <1>1. TypeOK'
    <2>1. running' \in BOOLEAN
      BY DEF TypeOK, PulseEnds, StopAndClear
    <2>2. ValuesOK'
      BY DEF TypeOK, ValuesOK, PulseEnds, StopAndClear
    <2> QED
      BY <2>1, <2>2 DEF TypeOK, ValuesOK
  <1>2. Resting'
    BY DEF TypeOK, Resting, PulseEnds
  <1>3. ~running' /\ lit' \subseteq crossed'
    BY DEF Measures, PulseEnds, StopAndClear
  <1> QED
    BY <1>1, <1>2, <1>3, CleanSlate

LEMMA BeginKeeps == ASSUME NEW s \in Source PROVE IInv /\ PulseBegins(s) => IInv'
  <1> SUFFICES ASSUME IInv, PulseBegins(s) PROVE IInv'
    OBVIOUS
  <1> USE Bounds DEF IInv
  <1>1. TypeOK'
    <2>1. running' \in BOOLEAN
      BY DEF TypeOK, PulseBegins, StartAndClear
    <2>2. ValuesOK'
      BY DEF TypeOK, ValuesOK, PulseBegins, StartAndClear
    <2> QED
      BY <2>1, <2>2 DEF TypeOK, ValuesOK
  <1>2. Resting'
    BY DEF Resting, PulseBegins
  <1>3. CASE phase # "live"
    BY <1>1, <1>2, <1>3, CleanSlate DEF Measures, PulseBegins
  <1>4. CASE phase = "live"
    <2>1. running' /\ owner' = s /\ ticks' = 0 /\ phase' = "live" /\ width' = width
      BY <1>4 DEF PulseBegins, StartAndClear
    <2>2. lit' \ crossed' = {s} /\ s \notin counted' /\ age'[s] = 0 /\ calm'[s] = 0
      BY <1>4 DEF PulseBegins, Resting, TypeOK
    <2>3. width \in 1..(TimerMod - 1)
      BY <1>4 DEF Resting
    <2>4. Measures' /\ Undecided'
      BY <2>1, <2>2 DEF Measures, Undecided
    <2>5. Approaches'
      BY <2>1, <2>2, <2>3 DEF Approaches, SinceWidth
    <2>6. CountedInTime'
      BY <2>2 DEF CountedInTime
    <2> QED
      BY <1>1, <1>2, <2>4, <2>5, <2>6
  <1> QED
    BY <1>3, <1>4

LEMMA WidthKeeps == ASSUME NEW w \in Widths PROVE IInv /\ SetMinWidth(w) => IInv'
  <1> SUFFICES ASSUME IInv, SetMinWidth(w) PROVE IInv'
    OBVIOUS
  <1> USE Bounds DEF IInv
  <1>1. /\ w \in 1..(TimerMod - 1) /\ width' = w /\ phase = "live"
        /\ UNCHANGED <<phase, lit, age, crossed, owner, ticks>>
        /\ calm' \in [Source -> 0..MaxAge] /\ \A s \in Source : calm'[s] = 0
    BY DEF SetMinWidth, timers
  <1>2. \/ UNCHANGED <<running, count, counted>>
        \/ /\ running /\ ticks = w /\ running' = FALSE
           /\ count' = (count + 1) % CounterMod /\ counted' = counted \cup {owner}
    BY DEF SetMinWidth, timers, CompareCounts
  <1>3. TypeOK'
    <2>1. running' \in BOOLEAN
      BY <1>1, <1>2 DEF TypeOK, Measures
    <2>2. ValuesOK'
      BY <1>1, <1>2, OneMoreCount DEF TypeOK, ValuesOK, Measures
    <2> QED
      BY <2>1, <2>2 DEF TypeOK, ValuesOK
  <1>4. Resting' /\ Measures' /\ Undecided'
    BY <1>1, <1>2 DEF Resting, Measures, Undecided
  <1>5. Approaches'
    <2>1. 0 <= SinceWidth'
      BY <1>1 DEF SinceWidth, TypeOK
    <2>2. running' => running /\ ticks <= age[owner] /\ owner \in Source
      BY <1>2 DEF Measures, TypeOK
    <2>3. running' /\ age[owner] = 0 => ticks = 0
      BY <2>2 DEF TypeOK
    <2> QED
      BY <1>1, <2>1, <2>2, <2>3 DEF Approaches
  <1>6. CountedInTime'
    BY <1>1, <1>2 DEF CountedInTime, Measures, TypeOK
  <1> QED
    BY <1>3, <1>4, <1>5, <1>6

LEMMA TickKeeps == IInv /\ Tick => IInv'
  <1> SUFFICES ASSUME IInv, Tick PROVE IInv'
    OBVIOUS
  <1> USE Bounds DEF IInv
  <1>1. /\ UNCHANGED <<phase, width, lit, crossed, owner>>
        /\ age' = Grown(age) /\ calm' = Grown(calm)
    BY DEF Tick
  <1>2. /\ age' \in [Source -> 0..MaxAge] /\ calm' \in [Source -> 0..MaxAge]
        /\ \A s \in Source \ lit : age'[s] = age[s] /\ calm'[s] = calm[s]
        /\ \A s \in lit : /\ age'[s] = IF age[s] < MaxAge THEN age[s] + 1 ELSE MaxAge
                          /\ calm'[s] = IF calm[s] < MaxAge THEN calm[s] + 1 ELSE MaxAge
    BY <1>1, GrownAges DEF TypeOK
  <1>3. Resting'
    BY <1>1, <1>2 DEF Resting
  \* A pulse that was counted in time stays so.
  <1>4. \A s \in lit \ crossed :
          /\ calm'[s] <= age'[s] /\ age'[s] > 0
          /\ s \in counted /\ calm'[s] = age'[s] => age'[s] >= width
    BY <1>2 DEF CountedInTime, TypeOK
  <1>5. CASE TimerRests
    <2>1. ~running /\ UNCHANGED <<running, ticks, count, counted>>
      BY <1>5 DEF TimerRests, timers
    <2>2. TypeOK'
      <3>1. running' \in BOOLEAN
        BY <1>1, <1>2, <2>1 DEF TypeOK
      <3>2. ValuesOK'
        BY <1>1, <1>2, <2>1 DEF TypeOK, ValuesOK
      <3> QED
        BY <3>1, <3>2 DEF TypeOK, ValuesOK
    <2>3. Measures' /\ Undecided' /\ Approaches'
      BY <1>1, <2>1 DEF Measures, Undecided, Approaches
    <2>4. CountedInTime'
      BY <1>1, <1>4, <2>1 DEF CountedInTime
    <2> QED
      BY <1>3, <2>2, <2>3, <2>4
  <1>6. CASE TimerStep
    <2>1. /\ running /\ owner \in lit \ (crossed \cup counted)
          /\ width \in 1..(TimerMod - 1) /\ ticks <= age[owner] /\ phase = "live"
      BY <1>6 DEF TimerStep, Measures, Resting
    <2>2. ticks' = IF ticks = TimerMod - 1 THEN 0 ELSE ticks + 1
      BY <1>6 DEF TimerStep, Next16
    <2>3. ticks' \in 0..(TimerMod - 1)
      BY <2>2 DEF TypeOK
    <2>4. /\ calm[owner] < TimerMod /\ calm[owner] <= SinceWidth
          /\ calm[owner] = age[owner] => ticks = age[owner] /\ ticks < width
      BY <2>1 DEF Approaches, SinceWidth, TypeOK
    <2>5. CASE ticks' = width
      <3>1. /\ running' = FALSE /\ count' = (count + 1) % CounterMod
            /\ counted' = counted \cup {owner}
        BY <1>6, <2>5 DEF TimerStep, CompareCounts
      <3>2. TypeOK'
        <4>1. running' \in BOOLEAN
          BY <1>1, <1>2, <2>1, <2>3, <3>1 DEF TypeOK
        <4>2. ValuesOK'
          BY <1>1, <1>2, <2>1, <2>3, <3>1, OneMoreCount DEF TypeOK, ValuesOK
        <4> QED
          BY <4>1, <4>2 DEF TypeOK, ValuesOK
      <3>3. Measures' /\ Undecided' /\ Approaches'
        BY <1>1, <3>1 DEF Measures, Undecided, Approaches
      <3>4. calm'[owner] = age'[owner] => age'[owner] >= width
        BY <1>2, <2>1, <2>2, <2>4, <2>5 DEF TypeOK
      <3>5. CountedInTime'
        BY <1>1, <1>4, <3>1, <3>4 DEF CountedInTime
      <3> QED
        BY <1>3, <3>2, <3>3, <3>5
    <2>6. CASE ticks' # width
      <3>1. UNCHANGED <<running, count, counted>>
        BY <1>6, <2>6 DEF TimerStep
      <3>2. TypeOK'
        <4>1. running' \in BOOLEAN
          BY <1>1, <1>2, <2>3, <3>1 DEF TypeOK
        <4>2. ValuesOK'
          BY <1>1, <1>2, <2>3, <3>1 DEF TypeOK, ValuesOK
        <4> QED
          BY <4>1, <4>2 DEF TypeOK, ValuesOK
      <3>3. ticks' <= age'[owner]
        BY <1>2, <2>1, <2>2, <2>3 DEF TypeOK
      <3>4. Measures' /\ Undecided'
        BY <1>1, <2>1, <3>1, <3>3 DEF Measures, Undecided
      <3>5. SinceWidth' = SinceWidth + 1 /\ SinceWidth' < TimerMod
        BY <1>1, <2>1, <2>2, <2>3, <2>6 DEF SinceWidth, TypeOK
      <3>6. Approaches'
        <4>1. calm'[owner] = calm[owner] + 1 /\ calm'[owner] < TimerMod
          BY <1>2, <2>1, <2>4, <3>5 DEF TypeOK, SinceWidth
        <4>2. calm'[owner] <= SinceWidth'
          BY <2>4, <3>5, <4>1 DEF TypeOK, SinceWidth
        <4>3. calm'[owner] = age'[owner] => ticks' = age'[owner] /\ ticks' < width
          BY <1>2, <2>1, <2>2, <2>4, <2>6, <4>1 DEF TypeOK
        <4> QED
          BY <1>1, <4>2, <4>3 DEF Approaches
      <3>7. CountedInTime'
        BY <1>1, <1>4, <3>1 DEF CountedInTime
      <3> QED
        BY <1>3, <3>2, <3>4, <3>6, <3>7
    <2> QED
      BY <2>5, <2>6
  <1> QED
    BY <1>5, <1>6 DEF Tick
-----------------------------------------------------------------------------
LEMMA NextIInv == IInv /\ [Next]_vars => IInv'
  <1> SUFFICES ASSUME IInv, [Next]_vars PROVE IInv'
    OBVIOUS
  <1>1. CASE Reset \/ HwInit
    BY <1>1, SetUpKeeps
  <1>2. CASE Tick
    BY <1>2, TickKeeps
  <1>3. CASE \E s \in Source : PulseBegins(s) \/ PulseEnds(s)
    BY <1>3, BeginKeeps, EndKeeps
  <1>4. CASE \E w \in Widths : SetMinWidth(w)
    BY <1>4, WidthKeeps
  <1>5. CASE UNCHANGED vars
    BY <1>5 DEF vars, timers, pulses, IInv, TypeOK, Resting, Measures, Undecided,
                Approaches, SinceWidth, CountedInTime
  <1> QED
    BY <1>1, <1>2, <1>3, <1>4, <1>5 DEF Next

LEMMA Invariance == Spec => []IInv
  <1>1. Init => IInv
    BY InitIInv
  <1>2. IInv /\ [Next]_vars => IInv'
    BY NextIInv
  <1> QED
    BY <1>1, <1>2, PTL DEF Spec

\* TIMER3 stays in its 16 bits and TIMER2 in its 32.
THEOREM TypeCorrect == Spec => []TypeOK
  <1>1. IInv => TypeOK
    BY DEF IInv
  <1> QED
    BY <1>1, Invariance, PTL

\* hw_pulse_counter.c:306-319: a pulse that nothing disturbs is counted exactly
\* when it has lasted as long as the threshold.
THEOREM Undisturbed == Spec => []UndisturbedPulse
  <1>1. IInv => UndisturbedPulse
    <2> SUFFICES ASSUME IInv, NEW s \in lit \ crossed, calm[s] = age[s]
                 PROVE  s \in counted <=> age[s] >= width
      BY DEF UndisturbedPulse
    <2>1. s \in counted => age[s] >= width
      BY DEF IInv, CountedInTime
    <2>2. s \notin counted => age[s] < width
      BY DEF IInv, Undecided, Approaches
    <2>3. age[s] \in Nat /\ width \in Nat
      BY Bounds DEF IInv, TypeOK
    <2> QED
      BY <2>1, <2>2, <2>3
  <1> QED
    BY <1>1, Invariance, PTL

\* A threshold lowered below the running timer delays a count by one turn of
\* TIMER3 and no more.
THEOREM LateButCounted == Spec => []LateNotNever
  <1>1. IInv => LateNotNever
    <2> SUFFICES ASSUME IInv, NEW s \in lit \ crossed, s \notin counted
                 PROVE  calm[s] < TimerMod
      BY Bounds DEF LateNotNever, IInv, TypeOK
    <2>1. running /\ owner = s /\ calm[s] <= SinceWidth
      BY DEF IInv, Undecided, Approaches
    <2>2. width \in 1..(TimerMod - 1)
      BY <2>1, Bounds DEF IInv, Measures, Resting
    <2> QED
      BY <2>1, <2>2, Bounds DEF IInv, TypeOK, SinceWidth
  <1> QED
    BY <1>1, Invariance, PTL

\* hw_pulse_counter.c:151-153: the fast clock runs only while there is a pulse in
\* flight that is still to be decided.
THEOREM ClockForPulse == Spec => []ClockOnlyForPulse
  <1>1. IInv => ClockOnlyForPulse
    BY DEF IInv, Measures, ClockOnlyForPulse
  <1> QED
    BY <1>1, Invariance, PTL
-----------------------------------------------------------------------------
(***************************************************************************)
(* The filter implements PulseGate.                                        *)
(***************************************************************************)

\* A count that TIMER3 causes is one the gate allows: the pulse it measures has
\* lasted as long as the timer shows.
LEMMA CountIsEarned ==
  ASSUME IInv, running, CompareCounts,
         age'[owner] \in Nat, width' \in Nat, width' <= age'[owner]
  PROVE  \E s \in Source : Gate!CountOne(s)
  <1>1. owner \in lit \ counted /\ owner \in Source
    BY DEF IInv, TypeOK, Measures
  <1>2. Gate!CountOne(owner)
    BY <1>1 DEF Gate!CountOne, CompareCounts
  <1> QED
    BY <1>1, <1>2

LEMMA GateInit == Init => Gate!Init
  BY DEF Init, Gate!Init

\* Power and set-up restart the gate.
LEMMA GateRestart == Reset \/ HwInit => Gate!Restart
  BY DEF Reset, HwInit, TimersReset, Gate!Restart

\* An edge begins or ends a pulse and counts nothing.
LEMMA GateEdge ==
  ASSUME NEW s \in Source
  PROVE  /\ PulseBegins(s) => Gate!Begin(s)
         /\ PulseEnds(s) => Gate!End(s)
  BY DEF PulseBegins, PulseEnds, Gate!Begin, Gate!End

\* A microsecond ages the pulses in progress and counts at most the measured one.
LEMMA GateTick == IInv /\ Tick => Gate!TimePasses
  <1> SUFFICES ASSUME IInv, Tick PROVE Gate!TimePasses
    OBVIOUS
  <1>1. /\ age' = [s \in Source |-> IF s \in lit THEN Gate!Older(age[s]) ELSE age[s]]
        /\ UNCHANGED <<width, lit>>
    BY DEF Tick, Grown, Older, Gate!Older
  <1>2. CASE UNCHANGED <<count, counted>>
    BY <1>1, <1>2 DEF Gate!TimePasses, Gate!CountNone
  <1>3. CASE running /\ ticks' = width /\ ticks' = Next16(ticks) /\ CompareCounts
    <2>1. /\ owner \in lit \cap Source /\ ticks <= age[owner]
          /\ width \in 1..(TimerMod - 1)
      BY <1>3, Bounds DEF IInv, Measures, Resting, TypeOK
    <2>2. age'[owner] = IF age[owner] < MaxAge THEN age[owner] + 1 ELSE MaxAge
      BY <2>1, GrownAges DEF IInv, TypeOK, Tick
    <2>3. age'[owner] \in Nat /\ width' \in Nat /\ width' <= age'[owner]
      BY <1>1, <1>3, <2>1, <2>2, Bounds DEF Next16, IInv, TypeOK
    <2>4. \E s \in Source : Gate!CountOne(s)
      BY <1>3, <2>3, CountIsEarned
    <2> QED
      BY <1>1, <2>4 DEF Gate!TimePasses
  <1> QED
    BY <1>2, <1>3 DEF Tick, TimerStep, TimerRests, timers

\* Reprogramming the threshold counts the measured pulse or nothing.
LEMMA GateSetWidth ==
  ASSUME NEW w \in Widths
  PROVE  IInv /\ SetMinWidth(w) => Gate!SetWidth
  <1> SUFFICES ASSUME IInv, SetMinWidth(w) PROVE Gate!SetWidth
    OBVIOUS
  <1>1. width' \in Widths /\ UNCHANGED <<lit, age>> /\ width' = w
    BY DEF SetMinWidth
  <1>2. CASE UNCHANGED <<timers, counted>>
    BY <1>1, <1>2 DEF Gate!SetWidth, Gate!CountNone, timers
  <1>3. CASE running /\ ticks = w /\ CompareCounts
    <2>1. age'[owner] \in Nat /\ width' \in Nat /\ width' <= age'[owner]
      BY <1>1, <1>3, Bounds DEF IInv, TypeOK, Measures
    <2>2. \E s \in Source : Gate!CountOne(s)
      BY <1>3, <2>1, CountIsEarned
    <2> QED
      BY <1>1, <2>2 DEF Gate!SetWidth
  <1> QED
    BY <1>2, <1>3 DEF SetMinWidth

\* No pulse is counted twice, and none that is shorter than the width in force,
\* whatever the two sources and the installer do to TIMER3.
THEOREM ImplementsGate == Spec => GateSpec
  <1>1. Init => Gate!Init
    BY GateInit
  <1>2. IInv /\ [Next]_vars => [Gate!Next]_(Gate!vars)
    <2> SUFFICES ASSUME IInv, [Next]_vars PROVE [Gate!Next]_(Gate!vars)
      OBVIOUS
    <2>1. CASE Reset \/ HwInit
      BY <2>1, GateRestart DEF Gate!Next
    <2>2. CASE Tick
      BY <2>2, GateTick DEF Gate!Next
    <2>3. CASE \E s \in Source : PulseBegins(s) \/ PulseEnds(s)
      BY <2>3, GateEdge DEF Gate!Next
    <2>4. CASE \E w \in Widths : SetMinWidth(w)
      BY <2>4, GateSetWidth DEF Gate!Next
    <2>5. CASE UNCHANGED vars
      BY <2>5 DEF vars, timers, pulses, Gate!vars
    <2> QED
      BY <2>1, <2>2, <2>3, <2>4, <2>5 DEF Next
  <1> QED
    BY <1>1, <1>2, Invariance, PTL DEF Spec, GateSpec, Gate!Spec
=============================================================================
