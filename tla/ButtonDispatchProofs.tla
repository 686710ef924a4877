------------------------ MODULE ButtonDispatchProofs ------------------------
(***************************************************************************)
(* Proofs about the user button, for any thresholds and any number of      *)
(* presses: what the held LED says, and which actions a gesture can cause. *)
(***************************************************************************)
EXTENDS ButtonDispatch, TLAPS

\* TypeOK in two halves, which the provers treat apart.
FlagsOK ==
  /\ pin \in BOOLEAN /\ irq \in BOOLEAN /\ arm_timer \in BOOLEAN /\ joined \in BOOLEAN
  /\ boot_press \in BOOLEAN /\ raced \in BOOLEAN /\ erased \in BOOLEAN

ValuesOK ==
  /\ phase \in {"poll", "erasing", "boot", "run", "halted"}
  /\ boot_elapsed \in 0..LongMin
  /\ since_start \in 0..LongMin /\ duration \in 0..LongMin /\ held \in 0..LongMin
  /\ arm_work \in {"idle", "queued", "running"}
  /\ sem \in 0..1
  /\ dispatch \in {"wait", "taken", "decide", "ack"}
  /\ kind \in Kinds /\ last_kind \in Kinds /\ dispatched \in Kinds
  /\ led \in Pattern \cup {"NONE"}
  /\ presses \in 0..MaxPresses
  /\ longs \in Nat /\ shorts \in Nat /\ resets \in Nat /\ joins \in Nat

\* The handler has served the press of the hold in progress and not its release.
Down == (pin /\ ~irq) \/ (~pin /\ irq)

LongDown == held >= LongMin /\ Down

\* Before the interrupt is armed there is no edge and no work item, and the red
\* LED belongs to the boot-hold.
Unarmed ==
  /\ phase # "run" => ~irq /\ ~arm_timer /\ arm_work = "idle"
  /\ led = "LONG_PRESS_HOLD" => phase \in {"erasing", "run"}

\* The work item is on its way only for the hold in progress, and leaves its
\* timer only when that hold is long; but for a handler that a release raced.
ArmedForHold ==
  /\ arm_timer => Down /\ since_start = held
  /\ irq /\ pin => held = 0
  /\ arm_work = "queued" => LongDown
  /\ arm_work = "running" /\ ~raced => LongDown

LedHonest == led = "LONG_PRESS_HOLD" /\ phase = "run" /\ ~raced => LongDown

IInv == FlagsOK /\ ValuesOK /\ Unarmed /\ ArmedForHold /\ LedHonest

\* A hold that began with the interrupt armed is measured as what the finger did,
\* and a hold before that is known as such.
Measured ==
  /\ phase = "run" /\ ~boot_press /\ Down => since_start = held
  /\ phase # "run" /\ pin => boot_press

\* From the press to the release, a hold that the interrupt saw begin has its work
\* item on the way or its LED on; nothing stronger than that LED is in its way.
Shown ==
  /\ phase = "run" /\ ~boot_press /\ Down =>
       arm_timer \/ arm_work # "idle" \/ led = "LONG_PRESS_HOLD"
  /\ led = "FATAL" => phase = "halted"

One(p) == IF p THEN 1 ELSE 0

\* What the releases so far may still be turned into: the thread has classified
\* one, it is about to read a duration, and the semaphore will wake it once more.
ResetsOwed ==
  resets + One(dispatch = "decide" /\ kind = "LONG")
         + One(dispatch = "taken" /\ Classify(duration) = "LONG")
         + One(sem = 1 /\ Classify(duration) = "LONG")

JoinsOwed ==
  joins + One(dispatch = "ack")
        + One(dispatch = "decide" /\ kind = "SHORT")
        + One(dispatch = "taken" /\ Classify(duration) = "SHORT")
        + One(sem = 1 /\ Classify(duration) = "SHORT")

\* With the button up when the interrupt is armed, no hold predates it, and each
\* completed gesture is good for two actions at most.
NoBootPress == phase = "run" /\ (pin \/ irq) => ~boot_press

Paid == NoBootPress /\ ResetsOwed <= 2 * longs /\ JoinsOwed <= 2 * shorts

\* In general one hold at most predates the interrupt, and its release is good
\* for two actions that no gesture of their kind has paid for.
BootHoldPending == phase # "run" \/ (boot_press /\ (pin \/ irq))

PaidButBootHold ==
  \/ ResetsOwed <= 2 * longs /\ JoinsOwed <= 2 * shorts
  \/ /\ ~BootHoldPending
     /\ ResetsOwed <= 2 * longs + 2 /\ JoinsOwed <= 2 * shorts + 2

\* The thread is done with the last press, or about to read it, or the semaphore
\* will wake it for that press.
Pending ==
  \/ sem = 1 \/ dispatch = "taken"
  \/ dispatch = "decide" /\ kind = Classify(duration)
  \/ dispatch \in {"wait", "ack"} /\ dispatched = Classify(duration)

LastMeasured == last_kind = Classify(duration)

\* A thread that waits with the semaphore down has acted upon the last press: what
\* LastPressHonoured says of safety (main.c, button_dispatch_thread).
LastPressDone == dispatch = "wait" /\ sem = 0 => dispatched = last_kind

\* Only the hold that began before the interrupt was armed, if the button was
\* still down then, is ever acted upon as something else than it was.
OneBootHoldApart == resets <= 2 * (longs + 1) /\ joins <= 2 * (shorts + 1)
-----------------------------------------------------------------------------
(***************************************************************************)
(* The operators of the model.                                             *)
(***************************************************************************)

\* The classifier's cut-offs are those of the table of gestures.
LEMMA ClassifierIsTheTable ==
  ASSUME NEW d \in 0..LongMin
  PROVE  Classify(d) = Gesture(d) /\ Classify(d) \in Kinds
  BY ButtonAssumption DEF Classify, Gesture, Kinds

LEMMA LaterInRange == \A t \in 0..LongMin : Later(t) \in 0..LongMin /\ Later(t) >= t
  BY ButtonAssumption DEF Later

\* A request shows what was shown or what is requested; a cancelled pattern is
\* not shown.
LEMMA LedMoves ==
  ASSUME NEW a \in Pattern \cup {"NONE"}, NEW p \in Pattern
  PROVE  /\ Requested(a, p) \in {a, p} /\ Requested(a, p) \in Pattern \cup {"NONE"}
         /\ Cancelled(a, p) \in {a, "NONE"} /\ Cancelled(a, p) # p
         /\ Cancelled(a, p) \in Pattern \cup {"NONE"}
  BY DEF Requested, Cancelled, Prio, Pattern

LEMMA Patterns ==
  {"FATAL", "LONG_PRESS_HOLD", "ERASE_CONFIRM", "BUTTON_ACK", "JOINING", "JOIN_SUCCESS",
   "JOIN_FAIL", "HEARTBEAT"} \subseteq Pattern
  BY DEF Pattern

\* Who does not touch the button, the work item or the boot, and does not light
\* the red LED, disturbs neither of them.
LEMMA Bystander ==
  ASSUME IInv, UNCHANGED <<pin, irq, arm_timer, arm_work, since_start, held, raced, phase>>,
         led' = "LONG_PRESS_HOLD" => led = "LONG_PRESS_HOLD"
  PROVE  Unarmed' /\ ArmedForHold' /\ LedHonest'
  <1>1. LongDown' <=> LongDown
    BY DEF LongDown, Down
  <1>2. Unarmed'
    BY DEF IInv, Unarmed
  <1>3. ArmedForHold' /\ LedHonest'
    BY <1>1 DEF IInv, ArmedForHold, LedHonest, Down
  <1> QED
    BY <1>2, <1>3

LEMMA InitIInv == Init => IInv
  <1> SUFFICES ASSUME Init PROVE IInv
    OBVIOUS
  <1> USE ButtonAssumption DEF Init
  <1>1. FlagsOK
    BY DEF FlagsOK
  <1>2. ValuesOK
    BY DEF ValuesOK, Kinds
  <1>3. Unarmed /\ ArmedForHold /\ LedHonest
    BY DEF Unarmed, ArmedForHold, LedHonest
  <1> QED
    BY <1>1, <1>2, <1>3 DEF IInv
-----------------------------------------------------------------------------
(***************************************************************************)
(* The environment keeps the invariant.                                    *)
(***************************************************************************)

LEMMA PinChangesKeeps == IInv /\ PinChanges => IInv'
  <1> SUFFICES ASSUME IInv, PinChanges PROVE IInv'
    OBVIOUS
  <1> USE ButtonAssumption DEF IInv, PinChanges, threadVars, armVars, bootVars
  <1>1. FlagsOK'
    <2>1. pin' \in BOOLEAN /\ irq' \in BOOLEAN /\ boot_press' \in BOOLEAN
      BY DEF FlagsOK
    <2> QED
      BY <2>1 DEF FlagsOK
  <1>2. ValuesOK'
    BY DEF ValuesOK, FlagsOK
  <1>3. Unarmed'
    BY DEF Unarmed
  <1>4. ArmedForHold' /\ LedHonest'
    <2>1. CASE pin
      BY <2>1 DEF ArmedForHold, LedHonest, LongDown, Down, FlagsOK, Unarmed
    <2>2. CASE ~pin
      BY <2>2 DEF ArmedForHold, LedHonest, LongDown, Down, FlagsOK, Unarmed
    <2> QED
      BY <2>1, <2>2
  <1> QED
    BY <1>1, <1>2, <1>3, <1>4

LEMMA ElapseKeeps == IInv /\ Elapse => IInv'
  <1> SUFFICES ASSUME IInv, Elapse PROVE IInv'
    OBVIOUS
  <1> USE ButtonAssumption DEF IInv, Elapse, threadVars, armVars, bootVars
  <1>1. FlagsOK'
    BY DEF FlagsOK
  <1>2. since_start' \in 0..LongMin /\ held' \in 0..LongMin /\ held' >= held
    BY LaterInRange DEF ValuesOK
  <1>3. ValuesOK'
    BY <1>2 DEF ValuesOK
  <1>4. Unarmed'
    BY DEF Unarmed
  <1>5. LongDown => LongDown'
    BY <1>2 DEF LongDown, Down, ValuesOK
  <1>6. ArmedForHold' /\ LedHonest'
    BY <1>5 DEF ArmedForHold, LedHonest, Down, ThreadsRun
  <1> QED
    BY <1>1, <1>3, <1>4, <1>6

LEMMA JoinedChangesKeeps == IInv /\ JoinedChanges => IInv'
  <1> SUFFICES ASSUME IInv, JoinedChanges PROVE IInv'
    OBVIOUS
  <1> USE DEF JoinedChanges, threadVars, armVars, bootVars, buttonVars
  <1>1. FlagsOK'
    BY DEF IInv, FlagsOK
  <1>2. ValuesOK'
    BY DEF IInv, ValuesOK
  <1>3. Unarmed' /\ ArmedForHold' /\ LedHonest'
    BY Bystander
  <1> QED
    BY <1>1, <1>2, <1>3 DEF IInv

LEMMA LedChangesKeeps == IInv /\ LedChanges => IInv'
  <1> SUFFICES ASSUME IInv, LedChanges PROVE IInv'
    OBVIOUS
  <1> USE DEF LedChanges, threadVars, armVars, bootVars, buttonVars
  <1>1. /\ led' \in Pattern \cup {"NONE"}
        /\ led' = "LONG_PRESS_HOLD" => led = "LONG_PRESS_HOLD"
    BY LedMoves, Patterns DEF IInv, ValuesOK
  <1>2. FlagsOK'
    BY DEF IInv, FlagsOK
  <1>3. ValuesOK'
    BY <1>1 DEF IInv, ValuesOK
  <1>4. Unarmed' /\ ArmedForHold' /\ LedHonest'
    BY <1>1, Bystander
  <1> QED
    BY <1>2, <1>3, <1>4 DEF IInv
-----------------------------------------------------------------------------
(***************************************************************************)
(* main()'s boot keeps the invariant.                                      *)
(***************************************************************************)

LEMMA PollReleasedKeeps == IInv /\ PollReleased => IInv'
  <1> SUFFICES ASSUME IInv, PollReleased PROVE IInv'
    OBVIOUS
  <1> USE DEF IInv, PollReleased, threadVars, armVars, buttonVars
  <1>1. FlagsOK'
    BY DEF FlagsOK
  <1>2. ValuesOK'
    BY DEF ValuesOK
  <1>3. Unarmed' /\ ArmedForHold' /\ LedHonest'
    BY DEF Unarmed, ArmedForHold, LedHonest, LongDown, Down
  <1> QED
    BY <1>1, <1>2, <1>3

LEMMA PollHeldKeeps == IInv /\ PollHeld => IInv'
  <1> SUFFICES ASSUME IInv, PollHeld PROVE IInv'
    OBVIOUS
  <1> USE ButtonAssumption DEF IInv, PollHeld, threadVars, armVars
  <1>1. FlagsOK'
    BY DEF FlagsOK
  <1>2. ValuesOK'
    BY LaterInRange DEF ValuesOK
  <1>3. Unarmed' /\ ArmedForHold' /\ LedHonest'
    BY DEF Unarmed, ArmedForHold, LedHonest
  <1> QED
    BY <1>1, <1>2, <1>3

LEMMA PollDoneKeeps == IInv /\ PollDone => IInv'
  <1> SUFFICES ASSUME IInv, PollDone PROVE IInv'
    OBVIOUS
  <1> USE DEF IInv, PollDone, threadVars, armVars, buttonVars
  <1>1. FlagsOK'
    BY DEF FlagsOK
  <1>2. ValuesOK'
    BY LedMoves, Patterns DEF ValuesOK
  <1>3. Unarmed' /\ ArmedForHold' /\ LedHonest'
    BY DEF Unarmed, ArmedForHold, LedHonest
  <1> QED
    BY <1>1, <1>2, <1>3

\* Whatever the erase came to, the red LED of the boot-hold is gone.
LEMMA EraseKeeps == IInv /\ Erase => IInv'
  <1> SUFFICES ASSUME IInv, Erase PROVE IInv'
    OBVIOUS
  <1> USE DEF IInv, Erase, threadVars, armVars, buttonVars
  <1>1. led' \in Pattern \cup {"NONE"} /\ led' # "LONG_PRESS_HOLD"
    <2>1. /\ Cancelled(led, "LONG_PRESS_HOLD") \in Pattern \cup {"NONE"}
          /\ Cancelled(led, "LONG_PRESS_HOLD") # "LONG_PRESS_HOLD"
      BY LedMoves, Patterns DEF ValuesOK
    <2>2. LET after == Requested(Cancelled(led, "LONG_PRESS_HOLD"), "ERASE_CONFIRM")
          IN  after \in Pattern \cup {"NONE"} /\ after # "LONG_PRESS_HOLD"
      BY <2>1, LedMoves, Patterns
    <2> QED
      BY <2>1, <2>2
  <1>2. FlagsOK'
    BY DEF FlagsOK
  <1>3. ValuesOK'
    BY <1>1 DEF ValuesOK
  <1>4. Unarmed' /\ ArmedForHold' /\ LedHonest'
    BY <1>1 DEF Unarmed, ArmedForHold, LedHonest
  <1> QED
    BY <1>2, <1>3, <1>4

LEMMA ArmIrqKeeps == IInv /\ ArmIrq => IInv'
  <1> SUFFICES ASSUME IInv, ArmIrq PROVE IInv'
    OBVIOUS
  <1> USE DEF IInv, ArmIrq, threadVars, armVars, buttonVars
  <1>1. led' \in Pattern \cup {"NONE"} /\ led' # "LONG_PRESS_HOLD"
    BY LedMoves, Patterns DEF ValuesOK, Unarmed
  <1>2. FlagsOK'
    BY DEF FlagsOK
  <1>3. ValuesOK'
    BY <1>1 DEF ValuesOK
  <1>4. Unarmed' /\ ArmedForHold' /\ LedHonest'
    BY <1>1 DEF Unarmed, ArmedForHold, LedHonest
  <1> QED
    BY <1>2, <1>3, <1>4
-----------------------------------------------------------------------------
(***************************************************************************)
(* The interrupt handler and the work item keep the invariant.             *)
(***************************************************************************)

\* A served press finds no work item of an earlier hold: its release took it.
LEMMA IsrPressKeeps == IInv /\ IsrPress => IInv'
  <1> SUFFICES ASSUME IInv, IsrPress PROVE IInv'
    OBVIOUS
  <1> USE ButtonAssumption DEF IInv, IsrPress, threadVars, bootVars
  <1>1. FlagsOK'
    BY DEF FlagsOK
  <1>2. ValuesOK'
    BY DEF ValuesOK
  <1>3. Unarmed'
    BY DEF Unarmed
  <1>4. ArmedForHold' /\ LedHonest'
    BY DEF ArmedForHold, LedHonest, LongDown, Down
  <1> QED
    BY <1>1, <1>2, <1>3, <1>4

\* A release takes the work item away, or finds its handler running.
LEMMA IsrReleaseKeeps == IInv /\ IsrRelease => IInv'
  <1> SUFFICES ASSUME IInv, IsrRelease PROVE IInv'
    OBVIOUS
  <1> USE ButtonAssumption DEF IInv, IsrRelease, bootVars
  <1>1. led' \in Pattern \cup {"NONE"} /\ led' # "LONG_PRESS_HOLD"
    BY LedMoves, Patterns DEF ValuesOK
  <1>2. FlagsOK'
    <2>1. raced' \in BOOLEAN
      OBVIOUS
    <2> QED
      BY <2>1 DEF FlagsOK
  <1>3. ValuesOK'
    <2>1. last_kind' \in Kinds
      BY DEF Gesture, Kinds
    <2>2. longs' \in Nat /\ shorts' \in Nat
      BY DEF ValuesOK
    <2>3. arm_work' \in {"idle", "queued", "running"}
      BY DEF ValuesOK
    <2> QED
      BY <1>1, <2>1, <2>2, <2>3 DEF ValuesOK
  <1>4. Unarmed'
    BY <1>1 DEF Unarmed
  <1>5. ArmedForHold' /\ LedHonest'
    BY <1>1 DEF ArmedForHold, LedHonest, ValuesOK
  <1> QED
    BY <1>2, <1>3, <1>4, <1>5

LEMMA ArmExpiresKeeps == IInv /\ ArmExpires => IInv'
  <1> SUFFICES ASSUME IInv, ArmExpires PROVE IInv'
    OBVIOUS
  <1> USE DEF IInv, ArmExpires, threadVars, bootVars, buttonVars
  <1>1. FlagsOK'
    BY DEF FlagsOK
  <1>2. ValuesOK'
    BY DEF ValuesOK
  <1>3. Unarmed'
    BY DEF Unarmed
  <1>4. ArmedForHold' /\ LedHonest'
    BY DEF ArmedForHold, LedHonest, LongDown, Down
  <1> QED
    BY <1>1, <1>2, <1>3, <1>4

LEMMA ArmStartsKeeps == IInv /\ ArmStarts => IInv'
  <1> SUFFICES ASSUME IInv, ArmStarts PROVE IInv'
    OBVIOUS
  <1> USE DEF IInv, ArmStarts, threadVars, bootVars, buttonVars
  <1>1. FlagsOK'
    BY DEF FlagsOK
  <1>2. ValuesOK'
    BY DEF ValuesOK
  <1>3. Unarmed'
    BY DEF Unarmed
  <1>4. ArmedForHold' /\ LedHonest'
    BY DEF ArmedForHold, LedHonest, LongDown, Down
  <1> QED
    BY <1>1, <1>2, <1>3, <1>4

LEMMA ArmHandlerKeeps == IInv /\ ArmHandler => IInv'
  <1> SUFFICES ASSUME IInv, ArmHandler PROVE IInv'
    OBVIOUS
  <1> USE DEF IInv, ArmHandler, threadVars, bootVars, buttonVars
  <1>1. FlagsOK'
    BY DEF FlagsOK
  <1>2. ValuesOK'
    BY LedMoves, Patterns DEF ValuesOK
  <1>3. Unarmed'
    BY DEF Unarmed, ValuesOK
  <1>4. ArmedForHold' /\ LedHonest'
    BY DEF ArmedForHold, LedHonest, LongDown, Down
  <1> QED
    BY <1>1, <1>2, <1>3, <1>4
-----------------------------------------------------------------------------
(***************************************************************************)
(* The dispatch thread keeps the invariant: it leaves the hold alone.      *)
(***************************************************************************)

LEMMA TakeSemKeeps == IInv /\ TakeSem => IInv'
  <1> SUFFICES ASSUME IInv, TakeSem PROVE IInv'
    OBVIOUS
  <1> USE DEF TakeSem, armVars, bootVars, buttonVars
  <1>1. FlagsOK' /\ ValuesOK'
    BY DEF IInv, FlagsOK, ValuesOK
  <1>2. Unarmed' /\ ArmedForHold' /\ LedHonest'
    BY Bystander
  <1> QED
    BY <1>1, <1>2 DEF IInv

LEMMA ReadDurationKeeps == IInv /\ ReadDuration => IInv'
  <1> SUFFICES ASSUME IInv, ReadDuration PROVE IInv'
    OBVIOUS
  <1> USE DEF ReadDuration, armVars, bootVars, buttonVars
  <1>1. kind' \in Kinds
    BY ClassifierIsTheTable DEF IInv, ValuesOK
  <1>2. FlagsOK' /\ ValuesOK'
    BY <1>1 DEF IInv, FlagsOK, ValuesOK
  <1>3. Unarmed' /\ ArmedForHold' /\ LedHonest'
    BY Bystander
  <1> QED
    BY <1>2, <1>3 DEF IInv

LEMMA DecideKeeps == IInv /\ Decide => IInv'
  <1> SUFFICES ASSUME IInv, Decide PROVE IInv'
    OBVIOUS
  <1> USE DEF Decide, armVars, bootVars, buttonVars
  <1>1. /\ led' \in Pattern \cup {"NONE"}
        /\ led' = "LONG_PRESS_HOLD" => led = "LONG_PRESS_HOLD"
    BY LedMoves, Patterns DEF IInv, ValuesOK
  <1>2. /\ dispatch' \in {"wait", "ack"}
        /\ resets' \in {resets, resets + 1} /\ joins' \in {joins, joins + 1}
    OBVIOUS
  <1>3. FlagsOK' /\ ValuesOK'
    BY <1>1, <1>2 DEF IInv, FlagsOK, ValuesOK
  <1>4. Unarmed' /\ ArmedForHold' /\ LedHonest'
    BY <1>1, Bystander
  <1> QED
    BY <1>3, <1>4 DEF IInv

LEMMA StartJoinKeeps == IInv /\ StartJoin => IInv'
  <1> SUFFICES ASSUME IInv, StartJoin PROVE IInv'
    OBVIOUS
  <1> USE DEF StartJoin, armVars, bootVars, buttonVars
  <1>1. /\ led' \in Pattern \cup {"NONE"}
        /\ led' = "LONG_PRESS_HOLD" => led = "LONG_PRESS_HOLD"
    BY LedMoves, Patterns DEF IInv, ValuesOK
  <1>2. FlagsOK' /\ ValuesOK'
    BY <1>1 DEF IInv, FlagsOK, ValuesOK
  <1>3. Unarmed' /\ ArmedForHold' /\ LedHonest'
    BY <1>1, Bystander
  <1> QED
    BY <1>2, <1>3 DEF IInv
-----------------------------------------------------------------------------
LEMMA NextIInv == IInv /\ [Next]_vars => IInv'
  <1> SUFFICES ASSUME IInv, [Next]_vars PROVE IInv'
    OBVIOUS
  <1>1. CASE Env
    BY <1>1, PinChangesKeeps, ElapseKeeps, JoinedChangesKeeps, LedChangesKeeps DEF Env
  <1>2. CASE Boot
    BY <1>2, PollReleasedKeeps, PollHeldKeeps, PollDoneKeeps, EraseKeeps, ArmIrqKeeps
       DEF Boot
  <1>3. CASE Isr
    BY <1>3, IsrPressKeeps, IsrReleaseKeeps DEF Isr
  <1>4. CASE ArmWork
    BY <1>4, ArmExpiresKeeps, ArmStartsKeeps, ArmHandlerKeeps DEF ArmWork
  <1>5. CASE Dispatch
    BY <1>5, TakeSemKeeps, ReadDurationKeeps, DecideKeeps, StartJoinKeeps DEF Dispatch
  <1>6. CASE UNCHANGED vars
    <2> USE <1>6 DEF vars, threadVars, armVars, buttonVars, bootVars
    <2>1. FlagsOK' /\ ValuesOK'
      BY DEF IInv, FlagsOK, ValuesOK
    <2>2. Unarmed' /\ ArmedForHold' /\ LedHonest'
      BY Bystander
    <2> QED
      BY <2>1, <2>2 DEF IInv
  <1> QED
    BY <1>1, <1>2, <1>3, <1>4, <1>5, <1>6 DEF Next

LEMMA Invariance == Spec => []IInv
  BY InitIInv, NextIInv, PTL DEF Spec

\* Every variable keeps its type, with durations capped at the long threshold
\* (main.c: the button's shared variables).
THEOREM TypeCorrect == Spec => []TypeOK
  <1>1. IInv => TypeOK
    BY DEF IInv, FlagsOK, ValuesOK, TypeOK
  <1> QED
    BY <1>1, Invariance, PTL

\* main.c:106 on the work item: "Cancelled on the rising edge", and main.c:139-141
\* "turn off any LED it may have already lit": the red LED ends with the hold.
HoldEndsWithRelease == led = "LONG_PRESS_HOLD" /\ phase = "run" => pin \/ irq

\* The red LED outlives its hold only where a release met the running handler
\* that lights it (main.c, user_button_isr and long_press_hold_arm_handler).
THEOREM RedOnlyByRace == Spec => [](HoldEndsWithRelease \/ raced)
  <1>1. IInv => HoldEndsWithRelease \/ raced
    BY DEF IInv, LedHonest, LongDown, Down, HoldEndsWithRelease
  <1> QED
    BY <1>1, Invariance, PTL
-----------------------------------------------------------------------------
(***************************************************************************)
(* Actions and the gestures that caused them: how each step changes what   *)
(* is owed.                                                                *)
(***************************************************************************)

LEMMA OwedIsNat ==
  ASSUME IInv
  PROVE  ResetsOwed \in Nat /\ JoinsOwed \in Nat /\ longs \in Nat /\ shorts \in Nat
         /\ resets <= ResetsOwed /\ joins <= JoinsOwed
  <1>1. resets \in Nat /\ joins \in Nat /\ longs \in Nat /\ shorts \in Nat
    BY DEF IInv, ValuesOK
  <1> QED
    BY <1>1 DEF ResetsOwed, JoinsOwed, One

\* Only the handler of a release and the thread touch the account.
LEMMA OwedUntouched ==
  ASSUME UNCHANGED <<threadVars, duration>>
  PROVE  ResetsOwed' = ResetsOwed /\ JoinsOwed' = JoinsOwed
  BY DEF ResetsOwed, JoinsOwed, threadVars, One, Classify

LEMMA OthersOweNothing ==
  Env \/ Boot \/ IsrPress \/ ArmWork => /\ ResetsOwed' = ResetsOwed /\ JoinsOwed' = JoinsOwed
                                        /\ longs' = longs /\ shorts' = shorts
  <1> SUFFICES ASSUME Env \/ Boot \/ IsrPress \/ ArmWork
               PROVE  UNCHANGED <<threadVars, duration, longs, shorts>>
    BY OwedUntouched
  <1> QED
    BY DEF Env, PinChanges, Elapse, JoinedChanges, LedChanges, Boot, PollReleased, PollHeld,
           PollDone, Erase, ArmIrq, IsrPress, ArmWork, ArmExpires, ArmStarts, ArmHandler,
           buttonVars

\* A release stands for two actions of the kind its duration is classified as:
\* one for a reading that was about to be made, one for the semaphore.
LEMMA ReleaseOwesTwo ==
  ASSUME IInv, IsrRelease
  PROVE  /\ ResetsOwed' <= ResetsOwed + 2 * One(Classify(since_start) = "LONG")
         /\ JoinsOwed' <= JoinsOwed + 2 * One(Classify(since_start) = "SHORT")
  <1>1. /\ UNCHANGED <<dispatch, kind, resets, joins>> /\ sem' = 1
        /\ duration' = since_start
    BY DEF IsrRelease
  <1>2. resets \in Nat /\ joins \in Nat
    BY DEF IInv, ValuesOK
  <1> DEFINE k == Classify(since_start)
  <1>3. ResetsOwed' = resets + One(dispatch = "decide" /\ kind = "LONG")
                             + One(dispatch = "taken" /\ k = "LONG") + One(k = "LONG")
    BY <1>1 DEF ResetsOwed, One, Classify
  <1>4. JoinsOwed' = joins + One(dispatch = "ack")
                           + One(dispatch = "decide" /\ kind = "SHORT")
                           + One(dispatch = "taken" /\ k = "SHORT") + One(k = "SHORT")
    BY <1>1 DEF JoinsOwed, One, Classify
  <1> HIDE DEF k
  <1>5. /\ ResetsOwed >= resets + One(dispatch = "decide" /\ kind = "LONG")
        /\ JoinsOwed >= joins + One(dispatch = "ack")
                              + One(dispatch = "decide" /\ kind = "SHORT")
    BY <1>2 DEF ResetsOwed, JoinsOwed, One
  <1>6. ResetsOwed \in Nat /\ JoinsOwed \in Nat
    BY OwedIsNat
  <1>7. /\ ResetsOwed' <= ResetsOwed + 2 * One(k = "LONG")
        /\ JoinsOwed' <= JoinsOwed + 2 * One(k = "SHORT")
    BY <1>2, <1>3, <1>4, <1>5, <1>6 DEF One
  <1> QED
    BY <1>7 DEF k

\* The thread turns what is owed into actions, and no more.
LEMMA ThreadOwesNoMore ==
  ASSUME IInv, Dispatch
  PROVE  ResetsOwed' <= ResetsOwed /\ JoinsOwed' <= JoinsOwed
  <1>1. UNCHANGED buttonVars
    BY DEF Dispatch, TakeSem, ReadDuration, Decide, StartJoin
  <1>2. resets \in Nat /\ joins \in Nat /\ kind \in Kinds /\ sem \in 0..1
    BY DEF IInv, ValuesOK
  <1> DEFINE k == Classify(duration)
  <1>3. k' = k
    BY <1>1 DEF buttonVars, Classify
  <1>4. ReadDuration => kind' = k
    BY DEF ReadDuration
  <1>5. /\ ResetsOwed = resets + One(dispatch = "decide" /\ kind = "LONG")
                               + One(dispatch = "taken" /\ k = "LONG")
                               + One(sem = 1 /\ k = "LONG")
        /\ JoinsOwed = joins + One(dispatch = "ack")
                             + One(dispatch = "decide" /\ kind = "SHORT")
                             + One(dispatch = "taken" /\ k = "SHORT")
                             + One(sem = 1 /\ k = "SHORT")
    BY DEF ResetsOwed, JoinsOwed
  <1>6. /\ ResetsOwed' = resets' + One(dispatch' = "decide" /\ kind' = "LONG")
                                 + One(dispatch' = "taken" /\ k = "LONG")
                                 + One(sem' = 1 /\ k = "LONG")
        /\ JoinsOwed' = joins' + One(dispatch' = "ack")
                               + One(dispatch' = "decide" /\ kind' = "SHORT")
                               + One(dispatch' = "taken" /\ k = "SHORT")
                               + One(sem' = 1 /\ k = "SHORT")
    BY <1>3 DEF ResetsOwed, JoinsOwed, One
  <1> HIDE DEF k
  <1>7. CASE TakeSem
    BY <1>2, <1>5, <1>6, <1>7 DEF TakeSem, One
  <1>8. CASE ReadDuration
    BY <1>2, <1>4, <1>5, <1>6, <1>8 DEF ReadDuration, One
  <1>9. CASE Decide
    BY <1>2, <1>5, <1>6, <1>9 DEF Decide, Action, One, Kinds
  <1>10. CASE StartJoin
    BY <1>2, <1>5, <1>6, <1>10 DEF StartJoin, One
  <1> QED
    BY <1>7, <1>8, <1>9, <1>10 DEF Dispatch
-----------------------------------------------------------------------------
(***************************************************************************)
(* What a release is measured as, and what it is paid by.                  *)
(***************************************************************************)

LEMMA MeasuredKept == IInv /\ Measured /\ [Next]_vars => Measured'
  <1> SUFFICES ASSUME IInv, Measured, [Next]_vars PROVE Measured'
    OBVIOUS
  <1>1. CASE PinChanges
    BY <1>1 DEF PinChanges, Measured, Down, bootVars, IInv, FlagsOK
  <1>2. CASE Elapse
    BY <1>2 DEF Elapse, ThreadsRun, Measured, Down, bootVars, IInv, FlagsOK
  <1>3. CASE JoinedChanges \/ LedChanges \/ ArmWork \/ Dispatch \/ UNCHANGED vars
    <2>1. UNCHANGED <<phase, pin, irq, boot_press, since_start, held>>
      BY <1>3 DEF JoinedChanges, LedChanges, ArmWork, ArmExpires, ArmStarts, ArmHandler,
                  Dispatch, TakeSem, ReadDuration, Decide, StartJoin, vars, buttonVars,
                  bootVars
    <2> QED
      BY <2>1 DEF Measured, Down
  <1>4. CASE Boot
    BY <1>4 DEF Boot, PollReleased, PollHeld, PollDone, Erase, ArmIrq, Measured, Down,
                IInv, Unarmed, buttonVars
  <1>5. CASE Isr
    BY <1>5 DEF Isr, IsrPress, IsrRelease, Measured, Down, IInv, ArmedForHold, Unarmed,
                bootVars
  <1> QED
    BY <1>1, <1>2, <1>3, <1>4, <1>5 DEF Next, Env

\* The release of a hold that began with the interrupt armed tells the thread the
\* duration of a real gesture, which pays for it.
LEMMA ReleasePays ==
  ASSUME IInv, Measured, IsrRelease, ~boot_press
  PROVE  /\ longs' = longs + One(Classify(since_start) = "LONG")
         /\ shorts' = shorts + One(Classify(since_start) = "SHORT")
  <1>1. since_start = held
    BY DEF IsrRelease, IInv, Unarmed, Measured, Down
  <1>2. last_kind' = Classify(since_start)
    BY <1>1, ClassifierIsTheTable DEF IsrRelease, IInv, ValuesOK
  <1> QED
    BY <1>2, OwedIsNat DEF IsrRelease, One

LEMMA ReleaseCounts ==
  ASSUME IInv, IsrRelease
  PROVE  /\ longs' \in Nat /\ longs' >= longs /\ shorts' \in Nat /\ shorts' >= shorts
  BY OwedIsNat DEF IsrRelease

LEMMA NoBootPressKept ==
  ASSUME ~HeldThroughBoot
  PROVE  IInv /\ NoBootPress /\ [Next]_vars => NoBootPress'
  <1> SUFFICES ASSUME IInv, NoBootPress, [Next]_vars PROVE NoBootPress'
    OBVIOUS
  <1>1. CASE Env
    BY <1>1 DEF Env, PinChanges, Elapse, JoinedChanges, LedChanges, NoBootPress, bootVars,
                buttonVars
  <1>2. CASE Boot
    BY <1>2 DEF Boot, PollReleased, PollHeld, PollDone, Erase, ArmIrq, NoBootPress, IInv,
                Unarmed
  <1>3. CASE Isr
    BY <1>3 DEF Isr, IsrPress, IsrRelease, NoBootPress, bootVars
  <1>4. CASE ArmWork \/ Dispatch \/ UNCHANGED vars
    <2>1. UNCHANGED <<phase, pin, irq, boot_press>>
      BY <1>4 DEF ArmWork, ArmExpires, ArmStarts, ArmHandler, Dispatch, TakeSem,
                  ReadDuration, Decide, StartJoin, vars, buttonVars, bootVars
    <2> QED
      BY <2>1 DEF NoBootPress
  <1> QED
    BY <1>1, <1>2, <1>3, <1>4 DEF Next

LEMMA PaidKept ==
  ASSUME ~HeldThroughBoot
  PROVE  IInv /\ Measured /\ Paid /\ [Next]_vars => Paid'
  <1> SUFFICES ASSUME IInv, Measured, Paid, [Next]_vars PROVE Paid'
    OBVIOUS
  <1>1. /\ ResetsOwed \in Nat /\ JoinsOwed \in Nat /\ longs \in Nat /\ shorts \in Nat
        /\ ResetsOwed <= 2 * longs /\ JoinsOwed <= 2 * shorts
    BY OwedIsNat DEF Paid
  <1>2. IInv'
    BY NextIInv
  <1>3. ResetsOwed' \in Nat /\ JoinsOwed' \in Nat
    <2>1. resets' \in Nat /\ joins' \in Nat
      BY <1>2 DEF IInv, ValuesOK
    <2> QED
      BY <2>1 DEF ResetsOwed, JoinsOwed, One, Classify
  <1>4. NoBootPress'
    BY NoBootPressKept DEF Paid
  <1>5. CASE Env \/ Boot \/ IsrPress \/ ArmWork
    BY <1>1, <1>4, <1>5, OthersOweNothing DEF Paid
  <1>6. CASE IsrRelease
    <2>1. ~boot_press
      BY <1>6 DEF IsrRelease, IInv, Unarmed, Paid, NoBootPress
    <2>2. /\ ResetsOwed' <= ResetsOwed + 2 * One(Classify(since_start) = "LONG")
          /\ JoinsOwed' <= JoinsOwed + 2 * One(Classify(since_start) = "SHORT")
      BY <1>6, ReleaseOwesTwo
    <2>3. /\ longs' = longs + One(Classify(since_start) = "LONG")
          /\ shorts' = shorts + One(Classify(since_start) = "SHORT")
      BY <1>6, <2>1, ReleasePays
    <2> QED
      BY <1>1, <1>3, <1>4, <2>2, <2>3 DEF Paid, One
  <1>7. CASE Dispatch
    <2>1. ResetsOwed' <= ResetsOwed /\ JoinsOwed' <= JoinsOwed
      BY <1>7, ThreadOwesNoMore
    <2>2. longs' = longs /\ shorts' = shorts
      BY <1>7 DEF Dispatch, TakeSem, ReadDuration, Decide, StartJoin, buttonVars
    <2> QED
      BY <1>1, <1>3, <1>4, <2>1, <2>2 DEF Paid
  <1>8. CASE UNCHANGED vars
    BY <1>1, <1>4, <1>8, OwedUntouched DEF vars, buttonVars, Paid
  <1> QED
    BY <1>5, <1>6, <1>7, <1>8 DEF Next, Isr

\* A hold that predates the interrupt is released once, and none follows it.
LEMMA OneBootHold ==
  ASSUME IInv, Measured, [Next]_vars
  PROVE  /\ BootHoldPending' => BootHoldPending
         /\ IsrRelease /\ boot_press => BootHoldPending /\ ~BootHoldPending'
  <1>1. BootHoldPending' => BootHoldPending
    <2>1. CASE Env
      BY <2>1 DEF Env, PinChanges, Elapse, JoinedChanges, LedChanges, BootHoldPending,
                  bootVars, buttonVars
    <2>2. CASE Boot
      BY <2>2 DEF Boot, PollReleased, PollHeld, PollDone, Erase, ArmIrq, BootHoldPending
    <2>3. CASE Isr
      BY <2>3 DEF Isr, IsrPress, IsrRelease, BootHoldPending, bootVars
    <2>4. CASE ArmWork \/ Dispatch \/ UNCHANGED vars
      <3>1. UNCHANGED <<phase, pin, irq, boot_press>>
        BY <2>4 DEF ArmWork, ArmExpires, ArmStarts, ArmHandler, Dispatch, TakeSem,
                    ReadDuration, Decide, StartJoin, vars, buttonVars, bootVars
      <3> QED
        BY <3>1 DEF BootHoldPending
    <2> QED
      BY <2>1, <2>2, <2>3, <2>4 DEF Next
  <1>2. IsrRelease /\ boot_press => BootHoldPending /\ ~BootHoldPending'
    BY DEF IsrRelease, BootHoldPending, IInv, Unarmed, bootVars
  <1> QED
    BY <1>1, <1>2

LEMMA EnoughForMore == \A o, n, m \in Nat : o <= 2 * n + 2 /\ n <= m => o <= 2 * m + 2
  OBVIOUS

LEMMA PaidButBootHoldKept ==
  IInv /\ Measured /\ PaidButBootHold /\ [Next]_vars => PaidButBootHold'
  <1> SUFFICES ASSUME IInv, Measured, PaidButBootHold, [Next]_vars PROVE PaidButBootHold'
    OBVIOUS
  <1>1. /\ ResetsOwed \in Nat /\ JoinsOwed \in Nat /\ longs \in Nat /\ shorts \in Nat
    BY OwedIsNat
  <1>2. IInv'
    BY NextIInv
  <1>3. ResetsOwed' \in Nat /\ JoinsOwed' \in Nat
    <2>1. resets' \in Nat /\ joins' \in Nat
      BY <1>2 DEF IInv, ValuesOK
    <2> QED
      BY <2>1 DEF ResetsOwed, JoinsOwed, One, Classify
  <1>4. BootHoldPending' => BootHoldPending
    BY OneBootHold
  <1>5. CASE Env \/ Boot \/ IsrPress \/ ArmWork
    BY <1>1, <1>4, <1>5, OthersOweNothing DEF PaidButBootHold
  <1>6. CASE IsrRelease
    <2>1. /\ ResetsOwed' <= ResetsOwed + 2 * One(Classify(since_start) = "LONG")
          /\ JoinsOwed' <= JoinsOwed + 2 * One(Classify(since_start) = "SHORT")
      BY <1>6, ReleaseOwesTwo
    <2>2. CASE ~boot_press
      <3>1. /\ longs' = longs + One(Classify(since_start) = "LONG")
            /\ shorts' = shorts + One(Classify(since_start) = "SHORT")
        BY <1>6, <2>2, ReleasePays
      <3> QED
        BY <1>1, <1>3, <1>4, <2>1, <3>1 DEF PaidButBootHold, One
    <2>3. CASE boot_press
      <3>1. longs' \in Nat /\ longs' >= longs /\ shorts' \in Nat /\ shorts' >= shorts
        BY <1>6, ReleaseCounts
      <3>2. ~BootHoldPending'
        BY <1>6, <2>3, OneBootHold
      <3>3. ResetsOwed <= 2 * longs /\ JoinsOwed <= 2 * shorts
        BY <1>6, <2>3, OneBootHold DEF PaidButBootHold
      <3>4. ResetsOwed' <= 2 * longs + 2 /\ JoinsOwed' <= 2 * shorts + 2
        BY <1>1, <1>3, <2>1, <3>3 DEF One
      <3>5. ResetsOwed' <= 2 * longs' + 2 /\ JoinsOwed' <= 2 * shorts' + 2
        BY <1>1, <1>3, <3>1, <3>4, EnoughForMore
      <3> QED
        BY <3>2, <3>5 DEF PaidButBootHold
    <2> QED
      BY <2>2, <2>3
  <1>7. CASE Dispatch
    <2>1. ResetsOwed' <= ResetsOwed /\ JoinsOwed' <= JoinsOwed
      BY <1>7, ThreadOwesNoMore
    <2>2. longs' = longs /\ shorts' = shorts
      BY <1>7 DEF Dispatch, TakeSem, ReadDuration, Decide, StartJoin, buttonVars
    <2> QED
      BY <1>1, <1>3, <1>4, <2>1, <2>2 DEF PaidButBootHold
  <1>8. CASE UNCHANGED vars
    <2>1. /\ ResetsOwed' = ResetsOwed /\ JoinsOwed' = JoinsOwed
          /\ longs' = longs /\ shorts' = shorts
      BY <1>8, OwedUntouched DEF vars, buttonVars
    <2> QED
      BY <1>1, <1>4, <2>1 DEF PaidButBootHold
  <1> QED
    BY <1>5, <1>6, <1>7, <1>8 DEF Next, Isr

LEMMA InitPaid == Init => Measured /\ Paid /\ PaidButBootHold
  BY ButtonAssumption DEF Init, Measured, NoBootPress, Paid, PaidButBootHold, ResetsOwed,
     JoinsOwed, One

\* With the button up when the interrupt is armed, only a real long hold resets
\* and only a real short press joins or wakes, at most twice each (main.c,
\* button_dispatch_thread; hardware.md, the table of gestures).
THEOREM GesturesOnly ==
  ASSUME ~HeldThroughBoot
  PROVE  Spec => []ActionsNeedPresses
  <1>1. IInv /\ Paid => ActionsNeedPresses
    <2> SUFFICES ASSUME IInv, Paid PROVE ActionsNeedPresses
      OBVIOUS
    <2>1. resets \in Nat /\ joins \in Nat
      BY DEF IInv, ValuesOK
    <2> QED
      BY <2>1, OwedIsNat DEF Paid, ActionsNeedPresses
  <1>2. IInv /\ Measured /\ Paid /\ [Next]_vars => Paid'
    BY PaidKept
  <1> QED
    BY <1>1, <1>2, InitPaid, Invariance, InitIInv, NextIInv, MeasuredKept, PTL DEF Spec

\* Held through the boot or not: beyond the gestures of their kind no more than
\* two resets and two joins or wakes are dispatched, all for the one hold that the
\* interrupt met in progress (main.c, user_button_isr and button_dispatch_thread).
THEOREM BootHoldApart == Spec => []OneBootHoldApart
  <1>1. IInv /\ PaidButBootHold => OneBootHoldApart
    <2> SUFFICES ASSUME IInv, PaidButBootHold PROVE OneBootHoldApart
      OBVIOUS
    <2>1. resets \in Nat /\ joins \in Nat
      BY DEF IInv, ValuesOK
    <2> QED
      BY <2>1, OwedIsNat DEF PaidButBootHold, OneBootHoldApart
  <1> QED
    BY <1>1, PaidButBootHoldKept, InitPaid, Invariance, InitIInv, NextIInv, MeasuredKept,
       PTL DEF Spec

\* However releases and the thread's steps interleave, the last one is not lost.
LEMMA PendingKept == IInv /\ Pending /\ [Next]_vars => Pending'
  <1> SUFFICES ASSUME IInv, Pending, [Next]_vars PROVE Pending'
    OBVIOUS
  <1>1. CASE Env \/ Boot \/ IsrPress \/ ArmWork \/ UNCHANGED vars
    <2>1. UNCHANGED <<threadVars, duration>>
      BY <1>1 DEF Env, PinChanges, Elapse, JoinedChanges, LedChanges, Boot, PollReleased,
                  PollHeld, PollDone, Erase, ArmIrq, IsrPress, ArmWork, ArmExpires,
                  ArmStarts, ArmHandler, buttonVars, vars
    <2> QED
      BY <2>1 DEF Pending, threadVars, Classify
  <1>2. CASE IsrRelease
    BY <1>2 DEF IsrRelease, Pending
  <1>3. CASE TakeSem
    BY <1>3 DEF TakeSem, Pending
  <1>4. CASE ReadDuration \/ Decide \/ StartJoin
    <2>1. duration' = duration
      BY <1>4 DEF ReadDuration, Decide, StartJoin, buttonVars
    <2>2. Classify(duration)' = Classify(duration)
      BY <2>1 DEF Classify
    <2>3. CASE ReadDuration
      BY <2>2, <2>3 DEF ReadDuration, Pending
    <2>4. CASE Decide
      <3>1. /\ dispatched' = kind /\ sem' = sem /\ dispatch = "decide"
            /\ dispatch' \in {"wait", "ack"}
        BY <2>4 DEF Decide
      <3>2. sem = 1 \/ kind = Classify(duration)
        BY <3>1 DEF Pending
      <3> QED
        BY <2>2, <3>1, <3>2 DEF Pending
    <2>5. CASE StartJoin
      BY <2>2, <2>5 DEF StartJoin, Pending
    <2> QED
      BY <1>4, <2>3, <2>4, <2>5
  <1> QED
    BY <1>1, <1>2, <1>3, <1>4 DEF Next, Isr, Dispatch

LEMMA LastMeasuredKept ==
  IInv /\ Measured /\ NoBootPress /\ LastMeasured /\ [Next]_vars => LastMeasured'
  <1> SUFFICES ASSUME IInv, Measured, NoBootPress, LastMeasured, [Next]_vars
               PROVE  LastMeasured'
    OBVIOUS
  <1>1. CASE IsrRelease
    <2>1. since_start = held
      BY <1>1 DEF IsrRelease, IInv, Unarmed, Measured, NoBootPress, Down
    <2>2. last_kind' = Classify(since_start) /\ duration' = since_start
      BY <1>1, <2>1, ClassifierIsTheTable DEF IsrRelease, IInv, ValuesOK
    <2> QED
      BY <2>2 DEF LastMeasured, Classify
  <1>2. CASE ~IsrRelease
    <2>1. duration' = duration /\ last_kind' = last_kind
      BY <1>2 DEF Next, Env, PinChanges, Elapse, JoinedChanges, LedChanges, Boot,
                  PollReleased, PollHeld, PollDone, Erase, ArmIrq, Isr, IsrPress, ArmWork,
                  ArmExpires, ArmStarts, ArmHandler, Dispatch, TakeSem, ReadDuration,
                  Decide, StartJoin, buttonVars, vars
    <2> QED
      BY <2>1 DEF LastMeasured, Classify
  <1> QED
    BY <1>1, <1>2

\* With the button up when the interrupt is armed, a press is never left behind by
\* a thread that goes back to waiting (main.c, button_dispatch_thread).
THEOREM LastPressNotLost ==
  ASSUME ~HeldThroughBoot
  PROVE  Spec => []LastPressDone
  <1>1. Init => NoBootPress /\ LastMeasured /\ Pending
    BY ButtonAssumption DEF Init, NoBootPress, LastMeasured, Pending, Classify
  <1>2. IInv /\ NoBootPress /\ [Next]_vars => NoBootPress'
    BY NoBootPressKept
  <1>3. IInv /\ LastMeasured /\ Pending => LastPressDone
    BY DEF LastMeasured, Pending, LastPressDone
  <1> QED
    BY <1>1, <1>2, <1>3, InitPaid, Invariance, InitIInv, NextIInv, MeasuredKept,
       LastMeasuredKept, PendingKept, PTL DEF Spec
-----------------------------------------------------------------------------
(***************************************************************************)
(* The hold and its LED.                                                   *)
(***************************************************************************)

\* Nothing but a fatal pattern displaces the red LED, and no fatal one comes of
\* another request.
LEMMA RedWins ==
  ASSUME NEW a \in Pattern \cup {"NONE"}, NEW p \in Pattern \ {"FATAL"}
  PROVE  /\ a = "LONG_PRESS_HOLD" => Requested(a, p) = a
         /\ a # "FATAL" => Requested(a, "LONG_PRESS_HOLD") = "LONG_PRESS_HOLD"
         /\ a # "FATAL" => Requested(a, p) # "FATAL" /\ Cancelled(a, "LONG_PRESS_HOLD") # "FATAL"
         /\ a # "FATAL" => Requested(Cancelled(a, "LONG_PRESS_HOLD"), p) # "FATAL"
  BY DEF Requested, Cancelled, Prio, Pattern

LEMMA ShownKept == IInv /\ Measured /\ Shown /\ [Next]_vars => Shown'
  <1> SUFFICES ASSUME IInv, Measured, Shown, [Next]_vars PROVE Shown'
    OBVIOUS
  <1>led. led \in Pattern \cup {"NONE"}
    BY DEF IInv, ValuesOK
  <1>1. CASE PinChanges
    BY <1>1 DEF PinChanges, Shown, Down, armVars, bootVars, IInv, FlagsOK
  <1>2. CASE Elapse \/ JoinedChanges
    BY <1>2 DEF Elapse, JoinedChanges, Shown, Down, armVars, bootVars, buttonVars
  <1>3. CASE LedChanges
    <2>1. (led = "LONG_PRESS_HOLD" => led' = led) /\ (led # "FATAL" => led' # "FATAL")
      BY <1>3, <1>led, RedWins, Patterns DEF LedChanges
    <2>2. led = "FATAL" => phase' = "halted"
      BY <1>3 DEF LedChanges, Shown, bootVars
    <2> QED
      BY <1>3, <2>1, <2>2 DEF LedChanges, Shown, Down, armVars, bootVars, buttonVars
  <1>4. CASE Boot
    <2>1. ~(phase' = "run" /\ ~boot_press' /\ Down')
      BY <1>4 DEF Boot, PollReleased, PollHeld, PollDone, Erase, ArmIrq, buttonVars, Down,
                  Measured, IInv, Unarmed
    <2>2. led' = "FATAL" => phase' = "halted"
      BY <1>4, <1>led, RedWins, Patterns
         DEF Boot, PollReleased, PollHeld, PollDone, Erase, ArmIrq, Shown
    <2> QED
      BY <2>1, <2>2 DEF Shown
  <1>5. CASE Isr
    <2>1. led # "FATAL" => led' # "FATAL"
      BY <1>5, <1>led, RedWins, Patterns DEF Isr, IsrPress, IsrRelease
    <2> QED
      BY <1>5, <2>1 DEF Isr, IsrPress, IsrRelease, Shown, Down, bootVars, IInv, Unarmed
  <1>6. CASE ArmExpires \/ ArmStarts
    BY <1>6 DEF ArmExpires, ArmStarts, Shown, Down, bootVars, buttonVars
  <1>7. CASE ArmHandler
    <2>1. phase = "run"
      BY <1>7 DEF ArmHandler, IInv, Unarmed
    <2>2. led' = "LONG_PRESS_HOLD"
      BY <1>7, <1>led, <2>1, RedWins, Patterns DEF ArmHandler, Shown
    <2> QED
      BY <2>2 DEF Shown
  <1>8. CASE Dispatch
    <2>1. (led = "LONG_PRESS_HOLD" => led' = led) /\ (led # "FATAL" => led' # "FATAL")
      BY <1>8, <1>led, RedWins, Patterns
         DEF Dispatch, TakeSem, ReadDuration, Decide, StartJoin
    <2>2. UNCHANGED <<phase, boot_press, pin, irq, arm_timer, arm_work>>
      BY <1>8 DEF Dispatch, TakeSem, ReadDuration, Decide, StartJoin, bootVars, buttonVars,
                  armVars
    <2> QED
      BY <2>1, <2>2 DEF Shown, Down
  <1>9. CASE UNCHANGED vars
    BY <1>9 DEF vars, armVars, bootVars, buttonVars, Shown, Down
  <1> QED
    BY <1>1, <1>2, <1>3, <1>4, <1>5, <1>6, <1>7, <1>8, <1>9 DEF Next, Env, ArmWork

\* A hold that the interrupt saw begin shows the red LED from the threshold to the
\* release, and nothing displaces it (main.c, long_press_hold_arm_handler).
THEOREM HoldShown == Spec => []HoldIsShown
  <1>1. Init => Shown
    BY DEF Init, Shown, Down
  <1>2. Shown => HoldIsShown
    BY DEF Shown, HoldIsShown, Down
  <1> QED
    BY <1>1, <1>2, InitPaid, Invariance, InitIInv, NextIInv, MeasuredKept, ShownKept,
       PTL DEF Spec
=============================================================================
