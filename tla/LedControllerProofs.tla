------------------------ MODULE LedControllerProofs ------------------------
(***************************************************************************)
(* Theorems about module LedController, for every number of blinks and     *)
(* every range of fatal codes.                                             *)
(***************************************************************************)
EXTENDS LedController, TLAPS

\* A tick is pending or running exactly for the pattern on the LEDs.
TickInv ==
  /\ tick = "idle" => rendered \notin TickDriven
  /\ tick # "idle" => rendered \in TickDriven /\ tick_for = rendered

\* Where a counted pattern stands, from the ticks it has left.
BlinkInv ==
  rendered \in Blinking =>
    /\ ticks_remaining <= BlinkTicks(rendered)
    /\ ticks_remaining % 2 = 1 =>
         2 * flashes = BlinkTicks(rendered) - ticks_remaining + 2
    /\ ticks_remaining % 2 = 0 =>
         lit = {} /\ 2 * flashes = BlinkTicks(rendered) - ticks_remaining + 1

\* Where a fatal cycle stands, from its phase.
FatalInv ==
  rendered = "FATAL" =>
    /\ fatal_flash_count > 0
    /\ fatal_phase_index < 2 * fatal_flash_count
    /\ ~collapsed =>
         /\ fatal_phase_index % 2 = 0 => 2 * flashes = fatal_phase_index + 2
         /\ fatal_phase_index % 2 = 1 => 2 * flashes = fatal_phase_index + 1 /\ lit = {}
         /\ cycle_ms = IF fatal_phase_index = 2 * fatal_flash_count - 1
                       THEN FatalCycle ELSE (fatal_phase_index + 1) * FatalPulse

IInv == TypeOK /\ TickInv /\ DarkWhenIdle /\ BlinkInv /\ FatalInv

\* The next phase of a cycle of m phases.
LEMMA NextPhase ==
  ASSUME NEW m \in Nat \ {0}, NEW k \in 0..(m - 1)
  PROVE  (k + 1) % m = IF k + 1 = m THEN 0 ELSE k + 1
  BY SMT

LEMMA BlinkTicksOdd ==
  ASSUME NEW p
  PROVE  BlinkTicks(p) \in Nat /\ BlinkTicks(p) % 2 = 1
  BY LedAssumption DEF LedAssumption, BlinkTicks

LEMMA InitIInv == Init => IInv
<1> SUFFICES ASSUME Init PROVE IInv
  OBVIOUS
<1>1. collapsed \in BOOLEAN
  BY Zenon DEF Init
<1>2. TypeOK
  BY <1>1, LedAssumption DEF Init, TypeOK, White, LedAssumption
<1>3. TickInv /\ DarkWhenIdle /\ BlinkInv /\ FatalInv
  BY DEF Init, TickInv, DarkWhenIdle, BlinkInv, FatalInv, TickDriven, OneShot, Blinking
<1> QED
  BY <1>2, <1>3 DEF IInv

\* What the callers of Select owe it.
SelectCaller(p, left) ==
  /\ p = rendered => left = tick /\ UNCHANGED <<fatal_flash_count, collapsed>>
  /\ p # rendered => left \in {"idle", "armed"}
  /\ fatal_flash_count' \in 0..MaxFlashCount
  /\ collapsed' \in BOOLEAN
  /\ p = "FATAL" /\ p # rendered => fatal_flash_count' > 0

\* A change of pattern restores the invariant, whoever asked for it.
LEMMA SelectIInv ==
  ASSUME IInv,
         NEW p \in Pattern \cup {"NONE"}, NEW left,
         Select(p, left),
         SelectCaller(p, left)
  PROVE  IInv'
<1>1. CASE p = rendered
  <2>1. UNCHANGED vars
    BY <1>1 DEF Select, SelectCaller, vars, IInv, TypeOK
  <2> QED
    BY <2>1 DEF vars, IInv, TypeOK, TickInv, DarkWhenIdle, BlinkInv, FatalInv, BlinkTicks
<1>2. CASE p # rendered
  <2>1. /\ active' = p /\ rendered' = p /\ lit' = FirstLight(p) /\ flashes' = 1
        /\ tick' = IF p \in TickDriven THEN "armed" ELSE "idle"
        /\ p \in TickDriven => tick_for' = p
        /\ tick_for' \in Pattern \cup {"NONE"}
        /\ ticks_remaining' = IF p \in Blinking THEN BlinkTicks(p) ELSE ticks_remaining
        /\ fatal_phase_index' = IF p = "FATAL" THEN 0 ELSE fatal_phase_index
        /\ cycle_ms' = IF p = "FATAL" THEN FatalPulse ELSE 0
    BY <1>2 DEF Select, SelectCaller, RenderStart, IInv, TypeOK
  <2>2. FirstLight(p) \in SUBSET White /\ (p = "NONE" => FirstLight(p) = {})
    BY DEF FirstLight, White, Pattern, Blinking
  <2>3. TypeOK'
    BY <2>1, <2>2, BlinkTicksOdd DEF SelectCaller, TypeOK, IInv, FatalPulse
  <2>4. TickInv' /\ DarkWhenIdle'
    BY <2>1, <2>2 DEF TickInv, DarkWhenIdle
  <2>5. BlinkInv'
    <3> SUFFICES ASSUME p \in Blinking
                 PROVE  /\ ticks_remaining' <= BlinkTicks(p)
                        /\ ticks_remaining' % 2 = 1
                        /\ 2 * flashes' = BlinkTicks(p) - ticks_remaining' + 2
      BY <2>1 DEF BlinkInv, BlinkTicks
    <3> QED
      BY <2>1, BlinkTicksOdd
  <2>6. FatalInv'
    <3> SUFFICES ASSUME p = "FATAL" PROVE FatalInv'
      BY <2>1 DEF FatalInv
    <3>1. PICK n \in Int : fatal_flash_count' = n /\ n > 0
      BY <1>2 DEF SelectCaller
    <3>2. 0 < 2 * n /\ 0 # 2 * n - 1
      BY <3>1
    <3>3. fatal_phase_index' = 0 /\ flashes' = 1 /\ cycle_ms' = FatalPulse
      BY <2>1
    <3> QED
      BY <3>1, <3>2, <3>3 DEF FatalInv, FatalPulse
  <2> QED
    BY <2>3, <2>4, <2>5, <2>6 DEF IInv
<1> QED
  BY <1>1, <1>2

\* One step per action of Next.
LEMMA NextIInv == IInv /\ [Next]_vars => IInv'
<1> SUFFICES ASSUME IInv, [Next]_vars PROVE IInv'
  OBVIOUS
<1> USE LedAssumption DEF LedAssumption
<1>1. ASSUME NEW p \in Pattern, Request(p) PROVE IInv'
  <2>1. Requested(active, p) \in Pattern \cup {"NONE"}
    BY DEF Requested, IInv, TypeOK
  <2>2. Requested(active, p) = "FATAL" => rendered = "FATAL"
    BY <1>1 DEF Request, Requested, IInv, TypeOK
  <2> QED
    BY <1>1, <2>1, <2>2, SelectIInv DEF SelectCaller, Request, IInv, TypeOK
<1>2. ASSUME NEW n \in 1..MaxFlashCount, RequestFatal(n) PROVE IInv'
  <2>1. Requested(active, "FATAL") = "FATAL"
    BY <1>2 DEF RequestFatal, Requested, Prio, IInv, TypeOK, Pattern
  <2>2. "FATAL" # rendered /\ "FATAL" \in Pattern /\ tick \in {"idle", "armed"}
    BY <1>2 DEF RequestFatal, Pattern, IInv, TypeOK
  <2>3. collapsed' \in BOOLEAN
    BY <1>2, Zenon DEF RequestFatal
  <2>4. Select("FATAL", tick) /\ fatal_flash_count' \in 1..MaxFlashCount
    BY <1>2, <2>1 DEF RequestFatal
  <2>5. SelectCaller("FATAL", tick)
    BY <2>2, <2>3, <2>4 DEF SelectCaller
  <2> QED
    BY <2>2, <2>4, <2>5, SelectIInv
<1>3. ASSUME NEW p \in Pattern, Cancel(p) PROVE IInv'
  <2>1. Cancelled(active, p) \in Pattern \cup {"NONE"}
    BY DEF Cancelled, IInv, TypeOK
  <2>2. Cancelled(active, p) # rendered => tick \in {"idle", "armed"}
    BY <1>3 DEF Cancel, Cancelled, IInv, TypeOK, TickInv, TickDriven, OneShot, Blinking
  <2>3. Cancelled(active, p) = "FATAL" => rendered = "FATAL"
    BY DEF Cancelled, IInv, TypeOK
  <2> QED
    BY <1>3, <2>1, <2>2, <2>3, SelectIInv DEF SelectCaller, Cancel, IInv, TypeOK
<1>4. CASE TickExpires
  BY <1>4 DEF TickExpires, IInv, TypeOK, TickInv, DarkWhenIdle, BlinkInv, FatalInv, BlinkTicks
<1>5. CASE TenMinutesPass
  BY <1>5 DEF TenMinutesPass, IInv, TypeOK, TickInv, DarkWhenIdle, BlinkInv, FatalInv,
     BlinkTicks
<1>6. CASE TickEnds
  <2>1. Cancelled(active, rendered) = "NONE" /\ "NONE" # rendered
    BY <1>6 DEF TickEnds, Cancelled, IInv, TypeOK, OneShot, Blinking
  <2> QED
    BY <1>6, <2>1, SelectIInv DEF SelectCaller, TickEnds, IInv, TypeOK
<1>7. CASE TickBlinks
  <2>1. TypeOK'
    BY <1>7 DEF TickBlinks, IInv, TypeOK, White, Pattern, Blinking
  <2>2. TickInv' /\ DarkWhenIdle' /\ FatalInv'
    BY <1>7 DEF TickBlinks, IInv, TickInv, DarkWhenIdle, FatalInv, TickDriven, Blinking
  <2>3. BlinkInv'
    BY <1>7, BlinkTicksOdd DEF TickBlinks, IInv, TypeOK, BlinkInv, BlinkTicks
  <2> QED
    BY <2>1, <2>2, <2>3 DEF IInv
<1>8. CASE TickJoining
  BY <1>8 DEF TickJoining, IInv, TypeOK, TickInv, DarkWhenIdle, BlinkInv, FatalInv,
     TickDriven, OneShot, Blinking, White, Pattern
<1>9. CASE TickFatal
  <2> DEFINE phases == IF collapsed THEN 2 ELSE 2 * fatal_flash_count
             next   == (fatal_phase_index + 1) % phases
  <2>1. next \in Nat /\ next < 2 * fatal_flash_count
    BY <1>9 DEF TickFatal, IInv, TypeOK, FatalInv
  <2>2. ~collapsed => next = IF fatal_phase_index + 1 = 2 * fatal_flash_count
                             THEN 0 ELSE fatal_phase_index + 1
    BY <1>9, NextPhase DEF TickFatal, IInv, TypeOK, FatalInv
  <2>3. /\ fatal_phase_index' = next
        /\ lit' = IF next % 2 = 0 THEN {"red"} ELSE {}
        /\ flashes' = IF next = 0 THEN 1
                      ELSE IF next % 2 = 0 THEN flashes + 1 ELSE flashes
        /\ cycle_ms' = IF collapsed THEN 0
                       ELSE (IF next = 0 THEN 0 ELSE cycle_ms)
                            + FatalDelay(fatal_flash_count, next)
        /\ tick' = "armed" /\ tick_for' = rendered /\ rendered = "FATAL"
        /\ UNCHANGED <<active, rendered, ticks_remaining, fatal_flash_count, collapsed>>
    BY <1>9 DEF TickFatal
  <2> HIDE DEF next
  <2>4. FatalDelay(fatal_flash_count, next) \in Int
    BY <2>1 DEF FatalDelay, FatalPulse, FatalCycle, IInv, TypeOK
  <2>5. TypeOK'
    <3>1. lit' \in SUBSET White
      BY <2>3 DEF White
    <3>2. flashes' \in Nat /\ cycle_ms' \in Int
      BY <2>1, <2>3, <2>4 DEF IInv, TypeOK
    <3> QED
      BY <2>1, <2>3, <3>1, <3>2 DEF IInv, TypeOK
  <2>6. TickInv' /\ DarkWhenIdle' /\ BlinkInv'
    BY <2>3 DEF IInv, TickInv, DarkWhenIdle, BlinkInv, TickDriven, Blinking
  <2>7. FatalInv'
    <3> SUFFICES ASSUME ~collapsed
                 PROVE  /\ next % 2 = 0 => 2 * flashes' = next + 2
                        /\ next % 2 = 1 => 2 * flashes' = next + 1
                        /\ cycle_ms' = IF next = 2 * fatal_flash_count - 1
                                       THEN FatalCycle ELSE (next + 1) * FatalPulse
      BY <2>1, <2>3 DEF IInv, FatalInv
    <3>1. CASE next = 0
      BY <3>1, <2>1, <2>3 DEF FatalDelay, FatalPulse, FatalCycle, IInv, TypeOK
    <3>2. CASE next # 0
      <4>1. next = fatal_phase_index + 1
        BY <3>2, <2>2
      <4> QED
        BY <3>2, <4>1, <2>1, <2>3 DEF FatalDelay, FatalPulse, FatalCycle, IInv, TypeOK, FatalInv
    <3> QED
      BY <3>1, <3>2
  <2> QED
    BY <2>5, <2>6, <2>7 DEF IInv
<1>10. CASE UNCHANGED vars
  BY <1>10 DEF vars, IInv, TypeOK, TickInv, DarkWhenIdle, BlinkInv, FatalInv, BlinkTicks
<1> QED
  BY <1>1, <1>2, <1>3, <1>4, <1>5, <1>6, <1>7, <1>8, <1>9, <1>10 DEF Next, TickHandler

LEMMA InvariantIInv == Spec => []IInv
  BY InitIInv, NextIInv, PTL DEF Spec

\* Type correctness.
THEOREM TypeCorrect == Spec => []TypeOK
  BY InvariantIInv, PTL DEF IInv

\* The comment of render_start_locked, made precise: no tick ever acts on a
\* pattern other than the one it was armed for.
THEOREM NoStaleTick == Spec => []TickNeverStale
<1>1. IInv => TickNeverStale
  BY DEF IInv, TickInv, TickNeverStale
<1> QED
  BY <1>1, InvariantIInv, PTL

\* No pattern freezes and none ticks that needs no tick.
THEOREM NoFrozenPattern == Spec => []TickMatchesPattern
<1>1. IInv => TickMatchesPattern
  BY DEF IInv, TypeOK, TickInv, TickMatchesPattern
<1> QED
  BY <1>1, InvariantIInv, PTL

\* Every counted pattern that runs out shows its number of blinks, for any
\* odd number of ticks.
THEOREM BlinksCounted == Spec => []BlinkCounts
<1>1. IInv => BlinkCounts
  BY BlinkTicksOdd DEF IInv, BlinkInv, BlinkCounts
<1> QED
  BY <1>1, InvariantIInv, PTL

\* A fatal cycle shows its code within 5 s, for any number of codes.
THEOREM FatalCodeShown == Spec => []FatalCode
<1>1. IInv => FatalCode
  BY DEF IInv, TypeOK, FatalInv, FatalCode
<1> QED
  BY <1>1, InvariantIInv, PTL

\* Silent by default: nothing to show leaves every LED off.
THEOREM IdleIsDark == Spec => []DarkWhenIdle
<1>1. IInv => DarkWhenIdle
  BY DEF IInv
<1> QED
  BY <1>1, InvariantIInv, PTL

\* Every step of the renderer is a step of the arbiter or leaves the pattern
\* on the LEDs alone.
LEMMA StepArbiter == TypeOK /\ [Next]_vars => [Arbiter!Next]_rendered
<1> SUFFICES ASSUME TypeOK, [Next]_vars, rendered' # rendered
             PROVE  Arbiter!Next
  BY DEF Arbiter!Next
<1>1. ASSUME NEW p \in Pattern, Request(p) PROVE Arbiter!Next
  <2>1. rendered' = Requested(rendered, p)
    BY <1>1 DEF Request, Select, TypeOK
  <2>2. Arbiter!Show(p)
    BY <2>1 DEF Requested, Arbiter!Show, Prio, Arbiter!Prio
  <2> QED
    BY <2>2 DEF Arbiter!Next, Pattern, Arbiter!Pattern
<1>2. ASSUME NEW n \in 1..MaxFlashCount, RequestFatal(n) PROVE Arbiter!Next
  <2>1. rendered' = Requested(rendered, "FATAL")
    BY <1>2 DEF RequestFatal, Select, TypeOK
  <2>2. Arbiter!Show("FATAL")
    BY <2>1 DEF Requested, Arbiter!Show, Prio, Arbiter!Prio
  <2> QED
    BY <2>2 DEF Arbiter!Next, Arbiter!Pattern
<1>3. ASSUME NEW p \in Pattern, Cancel(p) PROVE Arbiter!Next
  <2>1. p # "FATAL" /\ rendered' = Cancelled(rendered, p)
    BY <1>3 DEF Cancel, Select, TypeOK
  <2>2. rendered = p /\ rendered' = "NONE"
    BY <2>1 DEF Cancelled
  <2> QED
    BY <2>1, <2>2 DEF Arbiter!Next, Arbiter!Hide, Pattern
<1>4. CASE TickEnds
  <2>1. rendered' = Cancelled(rendered, rendered)
    BY <1>4 DEF TickEnds, Select, TypeOK
  <2> QED
    BY <1>4, <2>1 DEF TickEnds, Cancelled, OneShot, Blinking, Arbiter!Next, Arbiter!Hide
<1>5. CASE TickExpires \/ TenMinutesPass \/ TickBlinks \/ TickJoining \/ TickFatal
  BY <1>5 DEF TickExpires, TenMinutesPass, TickBlinks, TickJoining, TickFatal
<1>6. CASE UNCHANGED vars
  BY <1>6 DEF vars
<1> QED
  BY <1>1, <1>2, <1>3, <1>4, <1>5, <1>6 DEF Next, TickHandler

\* The renderer implements the arbiter.
THEOREM ImplementsArbiter == Spec => ArbiterSpec
<1>1. Init => Arbiter!Init
  BY DEF Init, Arbiter!Init
<1>2. TypeOK /\ [Next]_vars => [Arbiter!Next]_rendered
  BY StepArbiter
<1> QED
  BY <1>1, <1>2, TypeCorrect, PTL DEF Spec, ArbiterSpec, Arbiter!Spec
=============================================================================
