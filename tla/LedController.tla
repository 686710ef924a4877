--------------------------- MODULE LedController ---------------------------
(***************************************************************************)
(* The pattern renderer, src/led_controller.c: requests and cancels from   *)
(* several contexts, and one delayable work item that steps the rendered   *)
(* pattern.  Each operation runs under the spinlock, hence is one action;  *)
(* the tick's handler is dequeued in one step and takes the lock in a      *)
(* later one.  The work item runs on the cooperative system workqueue, so  *)
(* only the button's interrupt handler can come between those two steps.   *)
(***************************************************************************)
EXTENDS LedPriority

CONSTANTS
  JoinFailTicks,      \* JOIN_FAIL_TICKS
  EraseConfirmTicks,  \* ERASE_CONFIRM_TICKS
  MaxFlashCount       \* the largest fatal code

ASSUME LedAssumption ==
  /\ JoinFailTicks \in Nat /\ JoinFailTicks % 2 = 1
  /\ EraseConfirmTicks \in Nat /\ EraseConfirmTicks % 2 = 1
  /\ MaxFlashCount \in Nat \ {0}

VARIABLES
  active,             \* state.active
  rendered,           \* the pattern on the LEDs
  lit,                \* the LEDs that are on
  tick,               \* tick_work: idle, armed (or queued), running
  ticks_remaining,    \* join_fail_/erase_confirm_ticks_remaining
  fatal_flash_count,
  fatal_phase_index,
  collapsed,          \* FATAL_COLLAPSE_AFTER_MS have passed since the fatal request
  tick_for,           \* ghost: the pattern tick_work was armed for
  flashes,            \* ghost: times red went on since the pattern (fatal: cycle) began
  cycle_ms            \* ghost: delays scheduled since the fatal cycle began

tickVars  == <<lit, tick, ticks_remaining, fatal_phase_index, tick_for, flashes, cycle_ms>>
vars == <<active, rendered, lit, tick, ticks_remaining, fatal_flash_count,
          fatal_phase_index, collapsed, tick_for, flashes, cycle_ms>>

White == {"red", "green", "blue"}

OneShot == {"JOIN_SUCCESS", "BUTTON_ACK", "HEARTBEAT"}   \* end at their first tick
Blinking == {"JOIN_FAIL", "ERASE_CONFIRM"}               \* end after counted ticks
TickDriven == OneShot \cup Blinking \cup {"JOINING", "FATAL"}

\* What render_start_locked switches on.
FirstLight(p) ==
  CASE p = "BUTTON_ACK" -> White
    [] p = "JOINING" -> {"blue"}
    [] p \in {"JOIN_SUCCESS", "HEARTBEAT"} -> {"green"}
    [] p \in Blinking \cup {"LONG_PRESS_HOLD", "FATAL"} -> {"red"}
    [] OTHER -> {}

BlinkTicks(p) == IF p = "JOIN_FAIL" THEN JoinFailTicks ELSE EraseConfirmTicks

FatalPulse == 100
FatalCycle == 5000

\* Mutant of FatalDelay: the tail is one phase too short.
ShortTail(n, phase) ==
  IF phase % 2 = 0 \/ phase < 2 * n - 1 THEN FatalPulse ELSE FatalCycle - 2 * n * FatalPulse

\* The delay tick_handler schedules on entering a phase of an n-flash cycle.
FatalDelay(n, phase) ==
  IF phase % 2 = 0 \/ phase < 2 * n - 1 THEN FatalPulse
  ELSE FatalCycle - (2 * n - 1) * FatalPulse

Init ==
  /\ active = "NONE" /\ rendered = "NONE"
  /\ lit = {} /\ tick = "idle"
  /\ ticks_remaining = 0
  /\ fatal_flash_count = 0 /\ fatal_phase_index = 0 /\ collapsed = FALSE
  /\ tick_for = "NONE" /\ flashes = 0 /\ cycle_ms = 0

\* Mutant of RenderStart: has no case for NONE.
RenderKeepsLight(p, left) ==
  /\ lit' = IF p = "NONE" THEN lit ELSE FirstLight(p)
  /\ tick' = IF p \in TickDriven THEN "armed" ELSE left
  /\ tick_for' = IF p \in TickDriven THEN p ELSE tick_for
  /\ ticks_remaining' = IF p \in Blinking THEN BlinkTicks(p) ELSE ticks_remaining
  /\ fatal_phase_index' = IF p = "FATAL" THEN 0 ELSE fatal_phase_index
  /\ flashes' = 1
  /\ cycle_ms' = IF p = "FATAL" THEN FatalPulse ELSE 0

\* render_start_locked(p).  Cancelling removes an armed or queued tick but
\* cannot stop a running one, which then keeps the state "left".
RenderStart(p, left) ==
  /\ lit' = FirstLight(p)
  /\ tick' = IF p \in TickDriven THEN "armed" ELSE left
  /\ tick_for' = IF p \in TickDriven THEN p ELSE tick_for
  /\ ticks_remaining' = IF p \in Blinking THEN BlinkTicks(p) ELSE ticks_remaining
  /\ fatal_phase_index' = IF p = "FATAL" THEN 0 ELSE fatal_phase_index
  /\ flashes' = 1
  /\ cycle_ms' = IF p = "FATAL" THEN FatalPulse ELSE 0

\* Mutants of Select: the displaced pattern's tick is not cancelled, and a
\* repeated request starts the pattern again.
SelectKeepsTick(p, left) ==
  /\ active' = p /\ rendered' = p
  /\ IF p = rendered
     THEN tick' = left /\ UNCHANGED <<lit, ticks_remaining, fatal_phase_index,
                                      tick_for, flashes, cycle_ms>>
     ELSE RenderStart(p, left)

SelectRestarts(p, left) ==
  /\ active' = p /\ rendered' = p
  /\ RenderStart(p, IF left = "armed" THEN "idle" ELSE left)

\* The priority state becomes p; reselect_if_changed_locked.
Select(p, left) ==
  /\ active' = p
  /\ rendered' = p
  /\ IF p = rendered
     THEN tick' = left /\ UNCHANGED <<lit, ticks_remaining, fatal_phase_index,
                                      tick_for, flashes, cycle_ms>>
     ELSE RenderStart(p, IF left = "armed" THEN "idle" ELSE left)
-----------------------------------------------------------------------------
\* led_request, by a thread: none runs while the tick's handler does.
Request(p) ==
  /\ p # "FATAL"
  /\ tick # "running"
  /\ Select(Requested(active, p), tick)
  /\ UNCHANGED <<fatal_flash_count, collapsed>>

\* led_request_fatal, after which main() never returns to its loop.
RequestFatal(n) ==
  /\ active # "FATAL"
  /\ tick # "running"
  /\ fatal_flash_count' = n
  /\ collapsed' = FALSE
  /\ Select(Requested(active, "FATAL"), tick)

\* led_cancel(JOINING) by the ZBOSS thread, led_cancel(LONG_PRESS_HOLD) by
\* main() and by the interrupt handler, which can preempt a running tick.
Cancel(p) ==
  /\ \/ p = "LONG_PRESS_HOLD"
     \/ p = "JOINING" /\ tick # "running"
  /\ Select(Cancelled(active, p), tick)
  /\ UNCHANGED <<fatal_flash_count, collapsed>>

TickExpires ==
  /\ tick = "armed"
  /\ tick' = "running"
  /\ UNCHANGED <<active, rendered, lit, ticks_remaining, fatal_flash_count,
                 fatal_phase_index, collapsed, tick_for, flashes, cycle_ms>>

TenMinutesPass ==
  /\ active = "FATAL" /\ ~collapsed
  /\ collapsed' = TRUE
  /\ UNCHANGED <<active, rendered, lit, tick, ticks_remaining, fatal_flash_count,
                 fatal_phase_index, tick_for, flashes, cycle_ms>>
-----------------------------------------------------------------------------
(***************************************************************************)
(* tick_handler, one action per case of its switch.  Its default case, for *)
(* a "stale tick that fired after cancellation", has no action: reaching   *)
(* it would violate TickNeverStale.                                        *)
(***************************************************************************)

\* The pattern has run its course: cancel it and reselect.
TickEnds ==
  /\ tick = "running"
  /\ \/ rendered \in OneShot
     \/ rendered \in Blinking /\ ticks_remaining = 0
  /\ Select(Cancelled(active, rendered), "idle")
  /\ UNCHANGED <<fatal_flash_count, collapsed>>

\* Mutant of TickBlinks: the parity test inverted.
TickBlinksInverted ==
  /\ tick = "running"
  /\ rendered \in Blinking /\ ticks_remaining > 0
  /\ LET red_on == ticks_remaining % 2 = 1
     IN  /\ lit' = IF red_on THEN {"red"} ELSE {}
         /\ flashes' = IF red_on THEN flashes + 1 ELSE flashes
  /\ ticks_remaining' = ticks_remaining - 1
  /\ tick' = "armed" /\ tick_for' = rendered
  /\ UNCHANGED <<active, rendered, fatal_flash_count, fatal_phase_index, collapsed,
                 cycle_ms>>

TickBlinks ==
  /\ tick = "running"
  /\ rendered \in Blinking /\ ticks_remaining > 0
  /\ LET red_on == ticks_remaining % 2 = 0
     IN  /\ lit' = IF red_on THEN {"red"} ELSE {}
         /\ flashes' = IF red_on THEN flashes + 1 ELSE flashes
  /\ ticks_remaining' = ticks_remaining - 1
  /\ tick' = "armed" /\ tick_for' = rendered
  /\ UNCHANGED <<active, rendered, fatal_flash_count, fatal_phase_index, collapsed,
                 cycle_ms>>

\* Mutant of TickJoining: forgets to schedule the next tick.
TickJoiningOnce ==
  /\ tick = "running" /\ rendered = "JOINING"
  /\ lit' = IF lit = {} THEN {"blue"} ELSE {}
  /\ tick' = "idle"
  /\ UNCHANGED <<active, rendered, ticks_remaining, fatal_flash_count,
                 fatal_phase_index, collapsed, tick_for, flashes, cycle_ms>>

TickJoining ==
  /\ tick = "running" /\ rendered = "JOINING"
  /\ lit' = IF lit = {} THEN {"blue"} ELSE {}
  /\ tick' = "armed" /\ tick_for' = rendered
  /\ UNCHANGED <<active, rendered, ticks_remaining, fatal_flash_count,
                 fatal_phase_index, collapsed, flashes, cycle_ms>>

TickFatal ==
  /\ tick = "running" /\ rendered = "FATAL"
  /\ LET phases == IF collapsed THEN 2 ELSE 2 * fatal_flash_count
         next   == (fatal_phase_index + 1) % phases
     IN  /\ fatal_phase_index' = next
         /\ lit' = IF next % 2 = 0 THEN {"red"} ELSE {}
         /\ flashes' = IF next = 0 THEN 1
                       ELSE IF next % 2 = 0 THEN flashes + 1 ELSE flashes
         /\ cycle_ms' = IF collapsed THEN 0
                        ELSE (IF next = 0 THEN 0 ELSE cycle_ms)
                             + FatalDelay(fatal_flash_count, next)
  /\ tick' = "armed" /\ tick_for' = rendered
  /\ UNCHANGED <<active, rendered, ticks_remaining, fatal_flash_count, collapsed>>

-----------------------------------------------------------------------------
TickHandler == TickEnds \/ TickBlinks \/ TickJoining \/ TickFatal

Next ==
  \/ \E p \in Pattern : Request(p) \/ Cancel(p)
  \/ \E n \in 1..MaxFlashCount : RequestFatal(n)
  \/ TickExpires \/ TenMinutesPass \/ TickHandler

Spec == Init /\ [][Next]_vars

\* Timers expire and the workqueue runs what they submit.
FairSpec == Spec /\ WF_vars(TickExpires) /\ WF_vars(TickHandler)
-----------------------------------------------------------------------------
TypeOK ==
  /\ active \in Pattern \cup {"NONE"} /\ rendered = active
  /\ lit \in SUBSET White
  /\ tick \in {"idle", "armed", "running"}
  /\ ticks_remaining \in Nat /\ flashes \in Nat /\ cycle_ms \in Int
  /\ fatal_flash_count \in 0..MaxFlashCount /\ fatal_phase_index \in Nat
  /\ collapsed \in BOOLEAN
  /\ tick_for \in Pattern \cup {"NONE"}

\* The comments of render_start_locked and tick_handler: a tick armed for a
\* pattern never acts on the one that displaced it, so no pattern is cut
\* short by its predecessor's timer (led_controller.c:103-106).
TickNeverStale == tick = "running" => rendered \in TickDriven /\ rendered = tick_for

\* No pattern freezes: whatever was displaced or cancelled in between, a
\* pattern that needs the tick has one coming, and one that does not has none.
TickMatchesPattern == tick = "idle" <=> rendered \notin TickDriven

\* Silent by default (hardware.md): with nothing to show, every LED is off.
DarkWhenIdle == rendered = "NONE" => lit = {}

\* A blinking pattern that has run out of ticks has shown its whole number of
\* blinks (3 for a failed join, 4 for an erase) and rests dark.
BlinkCounts ==
  rendered \in Blinking /\ ticks_remaining = 0 =>
    lit = {} /\ 2 * flashes = BlinkTicks(rendered) + 1

\* Until it collapses, a fatal cycle shows the failure's code and lasts 5 s,
\* whatever was on the LEDs when the failure struck (hardware.md:250).
FatalCode ==
  rendered = "FATAL" /\ ~collapsed /\ fatal_phase_index = 2 * fatal_flash_count - 1 =>
    flashes = fatal_flash_count /\ cycle_ms = FatalCycle /\ lit = {}

Arbiter == INSTANCE PatternArbiter WITH shown <- rendered

\* What is on the LEDs only ever changes the way the arbiter promises: a
\* weaker request never displaces, nothing preempted resumes, fatal stays.
ArbiterSpec == Arbiter!Spec

\* A one-shot or counted pattern ends, however often it is requested again.
TransientsEnd ==
  \A p \in OneShot \cup Blinking : rendered = p ~> rendered # p
=============================================================================
