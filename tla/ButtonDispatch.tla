--------------------------- MODULE ButtonDispatch ---------------------------
(***************************************************************************)
(* The user button of src/main.c: the boot-hold poll, the edge interrupt,  *)
(* the work item that lights the "held" LED, and the thread that           *)
(* classifies and dispatches a press (src/button_press_classifier.c,       *)
(* src/button_action.c).                                                   *)
(*                                                                         *)
(* The interrupt handler is one action: nothing preempts it.  The work     *)
(* item runs on the cooperative workqueue: between its dequeuing and its   *)
(* led_request only the interrupt can run.  Time passes in units; every    *)
(* duration from LongMin on is the same to the code, hence kept as LongMin.*)
(***************************************************************************)
EXTENDS LedPriority

CONSTANTS
  ShortMax,         \* BUTTON_SHORT_MAX_MS
  LongMin,          \* BUTTON_LONG_MIN_MS, and BOOT_ERASE_HOLD_MS
  MaxPresses,       \* bound on the presses
  HeldThroughBoot   \* may the button still be down when the interrupt is armed?

ASSUME ButtonAssumption ==
  /\ ShortMax \in Nat /\ LongMin \in Nat
  /\ 0 < ShortMax /\ ShortMax < LongMin
  /\ MaxPresses \in Nat
  /\ HeldThroughBoot \in BOOLEAN

VARIABLES
  phase,         \* main(): poll, erasing, boot, run, halted
  boot_elapsed,  \* boot_button_held's elapsed
  pin,           \* the button is down
  irq,           \* an edge the handler has not served
  since_start,   \* k_uptime_get() - button_press_start_ms, which boots as 0
  arm_timer,     \* long_press_hold_arm: its delay is running
  arm_work,      \* long_press_hold_arm: idle, queued, running
  sem,           \* button_release_sem
  duration,      \* button_press_duration_ms
  dispatch,      \* where button_dispatch_thread is
  kind,          \* its local: the classified press
  joined,        \* zigbee_app's flag
  led,           \* the active LED pattern
  held,          \* ghost: how long the button was really down, this or last time
  boot_press,    \* ghost: that hold began before the interrupt was armed
  raced,         \* ghost: the last release met the work item's running handler
  presses, longs, shorts,   \* ghosts: presses; completed holds by real kind
  erased,        \* ghost: the accumulator was erased by the boot-hold
  resets, joins, \* ghosts: factory resets; joins and wakes dispatched
  last_kind,     \* ghost: the real kind of the last completed press
  dispatched     \* ghost: the kind of the last press acted upon

threadVars  == <<sem, dispatch, kind, resets, joins, dispatched>>
armVars     == <<arm_timer, arm_work>>
buttonVars  == <<since_start, duration, held, boot_press, raced, presses, longs,
                 shorts, last_kind>>
bootVars    == <<phase, boot_elapsed, erased>>
vars == <<pin, irq, joined, led, threadVars, armVars, buttonVars, bootVars>>

\* Mutant of Classify: no dead zone.
ClassifyGapless(d) == CASE 0 < d /\ d < ShortMax -> "SHORT"
                        [] d >= ShortMax -> "LONG"
                        [] OTHER -> "NEITHER"

\* button_press_classifier_classify.
Classify(d) == CASE 0 < d /\ d < ShortMax -> "SHORT"
                 [] d >= LongMin -> "LONG"
                 [] OTHER -> "NEITHER"

\* What the user did, by hardware.md's table of gestures: the ghosts' measure,
\* independent of the classifier.
Gesture(d) == IF d \in 1..(ShortMax - 1) THEN "SHORT"
              ELSE IF d >= LongMin THEN "LONG" ELSE "NEITHER"

\* button_action_for_press.
Action(k, is_joined) == CASE k = "SHORT" -> IF is_joined THEN "WAKE" ELSE "JOIN"
                          [] k = "LONG" -> "FACTORY_RESET"
                          [] OTHER -> "NONE"

Later(t) == IF t < LongMin THEN t + 1 ELSE t

\* An interrupt preempts every thread, the cooperative workqueue thread every
\* other one.
ThreadsRun == ~irq /\ arm_work # "running"

Init ==
  /\ phase \in {"poll", "boot"}       \* without a mounted store there is no poll
  /\ boot_elapsed = 0
  /\ pin \in BOOLEAN /\ irq = FALSE
  /\ since_start = 0
  /\ arm_timer = FALSE /\ arm_work = "idle"
  /\ sem = 0 /\ duration = 0 /\ dispatch = "wait" /\ kind = "NEITHER"
  /\ joined = FALSE /\ led = "NONE"
  /\ held = 0 /\ boot_press = pin /\ raced = FALSE
  /\ presses = 0 /\ longs = 0 /\ shorts = 0
  /\ erased = FALSE /\ resets = 0 /\ joins = 0
  /\ last_kind = "NEITHER" /\ dispatched = "NEITHER"
-----------------------------------------------------------------------------
(***************************************************************************)
(* The environment: a finger, time, the stack and the LED's other users.   *)
(***************************************************************************)

\* The pin does not bounce: an edge is served before the next one.
PinChanges ==
  /\ ~irq
  /\ pin \/ presses < MaxPresses
  /\ pin' = ~pin
  /\ irq' = (phase = "run")
  /\ IF pin THEN UNCHANGED <<held, boot_press, presses>>
            ELSE /\ held' = 0 /\ boot_press' = (phase # "run")
                 /\ presses' = presses + 1
  /\ UNCHANGED <<joined, led, threadVars, armVars, bootVars, since_start, duration,
                 raced, longs, shorts, last_kind>>

\* An edge is served, and a dequeued work item done, well within one unit.
Elapse ==
  /\ ThreadsRun
  /\ since_start' = Later(since_start)
  /\ held' = IF pin THEN Later(held) ELSE held
  /\ UNCHANGED <<pin, irq, joined, led, threadVars, armVars, bootVars, duration,
                 boot_press, raced, presses, longs, shorts, last_kind>>

JoinedChanges ==
  /\ ThreadsRun
  /\ joined' = ~joined
  /\ UNCHANGED <<pin, irq, led, threadVars, armVars, buttonVars, bootVars>>

\* The join outcome and the report tick ask for the LED; a pattern runs out.
LedChanges ==
  /\ ThreadsRun
  /\ \/ \E p \in {"JOIN_SUCCESS", "JOIN_FAIL", "HEARTBEAT"} : led' = Requested(led, p)
     \/ led \notin {"NONE", "FATAL", "LONG_PRESS_HOLD"} /\ led' = "NONE"
  /\ UNCHANGED <<pin, irq, joined, threadVars, armVars, buttonVars, bootVars>>
-----------------------------------------------------------------------------
(***************************************************************************)
(* main(): boot_button_held and what follows it.                           *)
(***************************************************************************)

PollReleased ==
  /\ phase = "poll" /\ ~pin
  /\ boot_elapsed < LongMin
  /\ phase' = "boot"
  /\ UNCHANGED <<pin, irq, joined, led, threadVars, armVars, buttonVars, boot_elapsed,
                 erased>>

\* One look at the pin and one k_sleep.
PollHeld ==
  /\ phase = "poll" /\ pin
  /\ boot_elapsed < LongMin
  /\ boot_elapsed' = boot_elapsed + 1
  /\ since_start' = Later(since_start) /\ held' = Later(held)
  /\ UNCHANGED <<pin, irq, joined, led, threadVars, armVars, phase, erased, duration,
                 boot_press, raced, presses, longs, shorts, last_kind>>

PollDone ==
  /\ phase = "poll"
  /\ boot_elapsed >= LongMin
  /\ led' = Requested(led, "LONG_PRESS_HOLD")
  /\ phase' = "erasing"
  /\ UNCHANGED <<pin, irq, joined, threadVars, armVars, buttonVars, boot_elapsed, erased>>

\* nvs_store_save_total(0), which may fail.
Erase ==
  /\ phase = "erasing"
  /\ erased' \in BOOLEAN
  /\ led' = IF erased' THEN Requested(Cancelled(led, "LONG_PRESS_HOLD"), "ERASE_CONFIRM")
                       ELSE Cancelled(led, "LONG_PRESS_HOLD")
  /\ phase' = "boot"
  /\ UNCHANGED <<pin, irq, joined, threadVars, armVars, buttonVars, boot_elapsed>>

\* user_button_arm_irq, the last step that can fail (fatal code 5).
ArmIrq ==
  /\ phase = "boot"
  /\ HeldThroughBoot \/ ~pin
  /\ \/ phase' = "run" /\ UNCHANGED led
     \/ phase' = "halted" /\ led' = Requested(led, "FATAL")
  /\ UNCHANGED <<pin, irq, joined, threadVars, armVars, buttonVars, boot_elapsed, erased>>
-----------------------------------------------------------------------------
(***************************************************************************)
(* user_button_isr and long_press_hold_arm_handler.                        *)
(***************************************************************************)

IsrPress ==
  /\ irq /\ pin
  /\ irq' = FALSE
  /\ since_start' = 0
  /\ arm_timer' = TRUE
  /\ UNCHANGED <<pin, joined, led, threadVars, arm_work, bootVars, duration, held,
                 boot_press, raced, presses, longs, shorts, last_kind>>

\* Mutant of IsrRelease: the semaphore is given only to a thread that waits for it.
ReleaseToWaiter ==
  /\ irq /\ ~pin
  /\ irq' = FALSE
  /\ arm_timer' = FALSE
  /\ arm_work' = IF arm_work = "queued" THEN "idle" ELSE arm_work
  /\ led' = Cancelled(led, "LONG_PRESS_HOLD")
  /\ duration' = since_start
  /\ sem' = IF dispatch = "wait" THEN 1 ELSE sem
  /\ raced' = (arm_work = "running")
  /\ last_kind' = Gesture(held)
  /\ UNCHANGED <<pin, joined, bootVars, since_start, held, boot_press, presses, longs,
                 shorts, dispatch, kind, resets, joins, dispatched>>

\* Cancelling the work item removes it from the timer and from the queue but
\* does not stop its handler.
IsrRelease ==
  /\ irq /\ ~pin
  /\ irq' = FALSE
  /\ arm_timer' = FALSE
  /\ arm_work' = IF arm_work = "queued" THEN "idle" ELSE arm_work
  /\ led' = Cancelled(led, "LONG_PRESS_HOLD")
  /\ duration' = since_start
  /\ sem' = 1
  /\ raced' = (arm_work = "running")
  /\ last_kind' = Gesture(held)
  /\ longs' = IF last_kind' = "LONG" /\ ~boot_press THEN longs + 1 ELSE longs
  /\ shorts' = IF last_kind' = "SHORT" /\ ~boot_press THEN shorts + 1 ELSE shorts
  /\ UNCHANGED <<pin, joined, bootVars, since_start, held, boot_press, presses,
                 dispatch, kind, resets, joins, dispatched>>

ArmExpires ==
  /\ arm_timer /\ since_start >= LongMin /\ arm_work = "idle"
  /\ arm_timer' = FALSE
  /\ arm_work' = "queued"
  /\ UNCHANGED <<pin, irq, joined, led, threadVars, buttonVars, bootVars>>

ArmStarts ==
  /\ arm_work = "queued" /\ ~irq
  /\ arm_work' = "running"
  /\ UNCHANGED <<pin, irq, joined, led, arm_timer, threadVars, buttonVars, bootVars>>

ArmHandler ==
  /\ arm_work = "running" /\ ~irq
  /\ led' = Requested(led, "LONG_PRESS_HOLD")
  /\ arm_work' = "idle"
  /\ UNCHANGED <<pin, irq, joined, arm_timer, threadVars, buttonVars, bootVars>>
-----------------------------------------------------------------------------
(***************************************************************************)
(* button_dispatch_thread, the lowest-priority thread.                     *)
(***************************************************************************)

TakeSem ==
  /\ dispatch = "wait" /\ sem = 1 /\ ThreadsRun
  /\ sem' = 0
  /\ dispatch' = "taken"
  /\ UNCHANGED <<pin, irq, joined, led, armVars, buttonVars, bootVars, kind, resets,
                 joins, dispatched>>

ReadDuration ==
  /\ dispatch = "taken" /\ ThreadsRun
  /\ kind' = Classify(duration)
  /\ dispatch' = "decide"
  /\ UNCHANGED <<pin, irq, joined, led, armVars, buttonVars, bootVars, sem, resets,
                 joins, dispatched>>

\* Reads joined and acts.  A join first sleeps 100 ms to show the ack.
Decide ==
  /\ dispatch = "decide" /\ ThreadsRun
  /\ LET action == Action(kind, joined)
     IN  /\ dispatch' = IF action = "JOIN" THEN "ack" ELSE "wait"
         /\ led' = IF action \in {"JOIN", "WAKE"} THEN Requested(led, "BUTTON_ACK")
                   ELSE IF action = "FACTORY_RESET" THEN Requested(led, "ERASE_CONFIRM")
                   ELSE led
         /\ resets' = IF action = "FACTORY_RESET" THEN resets + 1 ELSE resets
         /\ joins' = IF action = "WAKE" THEN joins + 1 ELSE joins
  /\ dispatched' = kind
  /\ UNCHANGED <<pin, irq, joined, armVars, buttonVars, bootVars, sem, kind>>

\* zigbee_app_start_join after the ack.
StartJoin ==
  /\ dispatch = "ack" /\ ThreadsRun
  /\ dispatch' = "wait"
  /\ joins' = joins + 1
  /\ led' = Requested(led, "JOINING")
  /\ UNCHANGED <<pin, irq, joined, armVars, buttonVars, bootVars, sem, kind, resets,
                 dispatched>>
-----------------------------------------------------------------------------
Env      == PinChanges \/ Elapse \/ JoinedChanges \/ LedChanges
Boot     == PollReleased \/ PollHeld \/ PollDone \/ Erase \/ ArmIrq
Isr      == IsrPress \/ IsrRelease
ArmWork  == ArmExpires \/ ArmStarts \/ ArmHandler
Dispatch == TakeSem \/ ReadDuration \/ Decide \/ StartJoin

Next == Env \/ Boot \/ Isr \/ ArmWork \/ Dispatch
Spec == Init /\ [][Next]_vars

\* Interrupts are served, the workqueue and the dispatch thread get the
\* processor: main() sleeps 200 ms per loop and no other thread spins.
FairSpec == Spec /\ WF_vars(Isr) /\ SF_vars(ArmWork) /\ SF_vars(Dispatch)
-----------------------------------------------------------------------------
Kinds == {"SHORT", "LONG", "NEITHER"}

TypeOK ==
  /\ phase \in {"poll", "erasing", "boot", "run", "halted"}
  /\ boot_elapsed \in 0..LongMin
  /\ {pin, irq, arm_timer, joined, boot_press, raced, erased} \subseteq BOOLEAN
  /\ {since_start, duration, held} \subseteq 0..LongMin
  /\ arm_work \in {"idle", "queued", "running"}
  /\ sem \in 0..1
  /\ dispatch \in {"wait", "taken", "decide", "ack"}
  /\ {kind, last_kind, dispatched} \subseteq Kinds
  /\ led \in Pattern \cup {"NONE"}
  /\ presses \in 0..MaxPresses /\ {longs, shorts, resets, joins} \subseteq Nat

\* hardware.md's table of gestures, from the finger to the dispatch: only a
\* real hold of at least LongMin resets and only a real short press joins or
\* wakes; the dead zone does neither.  The duration is overwritten under the
\* thread's feet, so one press can be acted upon twice, but never more often.
ActionsNeedPresses == resets <= 2 * longs /\ joins <= 2 * shorts

\* main.c:102-106: a hold that the interrupt saw begin is on the red LED from the
\* threshold to its release, whatever outcome, heartbeat or ack asks for the LED
\* meanwhile; until then the work item that lights it is due.
HoldIsShown ==
  phase = "run" /\ pin /\ ~irq /\ ~boot_press /\ held >= LongMin =>
    led = "LONG_PRESS_HOLD" \/ arm_timer \/ arm_work # "idle"

\* However the presses overlap the dispatching, the last one is acted upon
\* last: the binary semaphore never loses it.
LastPressHonoured == <>[](dispatched = last_kind)
-----------------------------------------------------------------------------
\* hardware.md:244 on the red LED: "You are 3 s from a factory reset - release now
\* to abort": a press released while it is lit is none that resets.
ReleaseAborts ==
  [][led = "LONG_PRESS_HOLD" /\ ~pin /\ irq /\ ~irq' => Classify(duration') # "LONG"]_vars

\* hardware.md:226 on the boot-hold: "Separate from factory reset - this keeps
\* the network join".
BootHoldKeepsJoin == erased /\ longs = 0 => resets = 0
=============================================================================
