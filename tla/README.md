# Verification of the nRF52840 power meter

TLA+ models, model-checking runs and machine-checked proofs for the firmware in
`src/seeed-studio-zigbee-energy-meter/`: a battery-powered meter that counts the
light pulses of an electricity meter, keeps the total in flash and reports it over
Zigbee. File names below are relative to `src/seeed-studio-zigbee-energy-meter/src/`
unless they start with `src/`.

`PROJECT.json` lists the components, runs, mutants, theorems and hazards, and maps each
definition to the lines it models.

## 1. The system

### Who runs

| Context | Runs | Preempted by |
|---|---|---|
| LPCOMP or D7 edge → PPI → TIMER3 → TIMER2 | counts pulses without the CPU | nothing |
| button interrupt (`user_button_isr`) | press and release edges | nothing that matters here |
| system workqueue (cooperative) | LED tick, "held" LED, five-minute report tick | interrupts only; it gives way only when it blocks, in the ADC conversion |
| `main()` (priority 0) | boot, then the 200 ms sample loop | interrupts, workqueue |
| ZBOSS thread (the Zigbee stack, external; priority 3) | scheduled callbacks, signals, attribute writes | interrupts, workqueue, `main()` |
| button dispatch thread (lowest priority) | classifies a press and acts | all of the above |

The priorities of `main()` and of the ZBOSS thread are the SDK's defaults; the repository sets
neither. `SummationPublish` and `BatteryReport` do not rest on them: there the ZBOSS thread may also
come between any two steps of `main()`, which it cannot do at these defaults, and what they show
holds for either order.

The contexts share memory without locks, but for the LED controller's spinlock and the
atomic `user_join_in_flight`; `joined`, the shadow values and the press duration are plain
variables. They talk through the ZBOSS callback
queue (`ZB_SCHEDULE_APP_CALLBACK`, whose result nobody looks at), one semaphore and work
items.

### Components

| Component | State | Operations | Interacts with | What makes it correct |
|---|---|---|---|---|
| Pulse pipeline (`main.c`, `pulse_accumulator.c`, `persist_policy.c`, `nvs_store.c`, TIMER2 of `hw_pulse_counter.c`) | counter, `acc`, `last_saved_*`, flash record | boot, restore, boot-hold erase, sample, save | hands totals to publishing | each pulse counted once across wraps and resets; bounded loss on power failure |
| Summation publishing (`main.c`, `zigbee_app.c`, `report_gate.c`) | shadow total, callback queue, attribute, report gate | publish, publish and report, report tick, two callbacks | main, workqueue, ZBOSS | no update lost to a full queue, never stale for good, never falling but by the tick |
| LED controller (`led_controller.c`, `led_priority.c`) | active and rendered pattern, tick work item, counters | request, request fatal, cancel, tick | every other component | no stale or lost tick, exact blink counts, priority order |
| User button (`main.c`, `button_press_classifier.c`, `button_action.c`) | press time, duration, semaphore, arming work item | boot-hold poll, interrupt, arming, dispatch | LED, join | only the gesture that was made is acted upon; the last one always |
| Installer settings (`zigbee_app.c`, `calibration.c`, `nvs_store.c`, `hw_pulse_counter.c`) | two attributes, two records, filter threshold | boot load, accepted and rejected write | ZBOSS writes, filter | readback is the value in force, which is valid and survives a reboot |
| Join lifecycle (`zigbee_app.c`) | `joined`, `user_join_in_flight`, callback queue, poll interval | start join, factory reset, wake, three signals | button, LED, ZBOSS | one answer per join, seen on the LED; on a network the device polls as asked |
| Pulse-width filter (`hw_pulse_counter.c`) | TIMER3, its threshold | start, clear, compare, reprogram | settings, TIMER2 | a pulse is counted once, exactly when it is as long as the threshold, and the fast clock runs for nothing else |
| Boot sequence (`main.c`) | boot stage, fatal code | initialisation steps | all | a failed step shows its own code |
| Battery (`battery_level.c`, `zigbee_app.c`) | two shadow bytes, two attributes | sample, convert, copy, report | publishing | a report is no older than its own conversion, but by the one `main()` had in hand; "unknown" means that the conversion failed |
| Scaling (`metering_scale.c`) | none | u64 → u48 | publishing | a total that does not fit saturates, so the reading does not fall |
| Cluster tables, host tools, Zigbee2MQTT converter, host tests | — | — | — | see section 7 |

### What is hard about it

Two writers of the shadow total and of the battery pair with no lock, and a reader that copies the
pair in two calls; a 16-bit timer that two
inputs share and whose threshold moves while it runs; a callback queue that can refuse; work items
that cannot be cancelled once they run; a duration that one context overwrites while another
is about to read it; power loss at any point between a pulse and its flash record; failing
mounts, loads and saves; a write callback that is called *after* the stack has stored the
new value. `PROJECT.json` lists these hazards at their lines, each with its property
or the reason there is none.

## 2. Modules

| Module | What it is | Correspondence |
|---|---|---|
| `PulsePipeline` | the pulse path from TIMER2 to flash | `pc` is main()'s position; one action per step between which a pulse or a power loss can fall. `Pulse` and `Reset` are the environment. `ShouldWrite` and `HwDelta` are the pure functions |
| `DurableMeter` | abstract: one reading that grows, one stored value set only to it | refined by `PulsePipeline` |
| `PulsePipelineProofs` | theorems on the pulse path | section 5 |
| `PulseGate` | abstract: a pulse counts once at most, and only when it is long enough | refined by `PulseFilter` |
| `PulseFilter` | the two inputs, the PPI channels and TIMER3 in front of TIMER2 | a step is one microsecond, an edge of one input or a reprogramming. Its compare event is what `PulsePipeline` calls `Pulse` |
| `PulseFilterProofs` | theorems on the filter | section 5 |
| `MeteringScale` | `metering_scale.c` as operators | the words' widths are parameters |
| `SummationPublish` | how a total becomes an attribute and a report | `main`, `tick` are positions of two threads; callbacks pop `queue`. The tick's handler gives way only in the ADC, so what it does after is one action, while main() can be cut anywhere |
| `SummationPublishProofs` | theorems on publishing and on the scaling | section 5 |
| `BatteryLevel` | `battery_level.c` as operators | |
| `BatteryReport` | two threads that sample the battery, two shadow bytes, the report | the same threads as in `SummationPublish`; main() can be cut between its two stores and the report callback between its two copies (`CopiesVoltage`, `CopiesPercentageAndReports`). A byte carries the number of the conversion it comes from |
| `BatteryReportProofs` | theorems on the battery reports and the conversions | section 5 |
| `LedPriority` | `led_priority.c` as operators | every caller pairs a pattern with its own priority, so the active pattern is the whole state |
| `PatternArbiter` | abstract: what the LED promises its callers | refined by `LedController` |
| `LedController` | `led_controller.c` | each operation holds the spinlock, hence one action; the tick is dequeued (`TickExpires`) before its handler takes the lock |
| `LedControllerProofs` | theorems on the LED | section 5 |
| `ButtonDispatch` | boot-hold poll, interrupt, arming work item, dispatch thread | the handler is one action; the thread's take, read, decide and join are four, because the interrupt can come between them |
| `ButtonDispatchProofs` | theorems on the button | section 5 |
| `Calibration` | the two settings | a ZCL write is the stack's store plus `zcl_device_cb`; reads are served only after both |
| `CalibrationProofs` | theorems on the settings | section 5 |
| `JoinLifecycle` | join, leave, reset, wake, their LED and the poll interval | the dispatch thread's calls are cut where the ZBOSS thread can preempt it; `OthersLight` and `PatternEnds` are the rest of the program on the same LED |
| `JoinLifecycleProofs` | theorems on joins and polling | section 5 |
| `MC*` | TLC instances | |

`LedPriority` composes the models: `ButtonDispatch` and `JoinLifecycle` use it as the LED they
drive, `LedController` renders it. Ghost variables (marked in each module) record what
happened; no action of the code reads one. Names that begin a comment with "Mutant of" are
mutations used to check that a property can fail; no specification uses them.

## 3. Runs

Passing:

| Run | Question | Bounds, and why they are enough |
|---|---|---|
| `pulse` | no pulse lost or double-counted; loss bound; the first change after boot saved at once; flash never claims too much, and falls only to zero or in the first save after a failed load; refinement of `DurableMeter`; everything durable in the end | counter modulus 4 with 5 pulses per boot: wraps occur in every boot. Threshold 2 and interval 2: both arms of the policy decide alone and together. 3 boots: restore of a restored total, wipe, failed load |
| `filter` | a pulse is counted exactly when it is long enough; a lowered threshold delays a count by one wrap at most; the fast clock runs for undecided pulses only; refinement of `PulseGate` | both inputs, a timer that wraps at 8, widths 1, 2 and 4, pulses that outlast a wrap: every order of edges, wrap and reprogramming. Ages from 9 on are equal |
| `publish` | the attribute settles on the accumulator's total whatever is refused; two writers leave no third value; the reading falls only by the tick's doing | queue of 2 with up to 2 foreign callbacks: full of publishes, of others, and mixed. Totals to 4 with words of one bit each: carry into the high word at 2, saturation at 4. Gate period 2: changes with and without a report |
| `battery` | no byte of a report is older than the conversion made for it, or than the one before where `main()` had that in hand; between reports the voltage is at most two conversions newer than the percentage and four older; "unknown" means a failed conversion | the one reading whose voltage would be the byte for unknown; conversions that fail; queue of 2; 5 numbered conversions: each caller converts before, between and within two copies, and both bounds are reached |
| `led` | no stale tick, no frozen pattern, counted blinks, fatal code, arbiter refinement, transients end | the code's own tick counts (5 and 7) and codes (1 to 5): nothing is scaled down |
| `button` | every action goes back to a gesture of that kind; a hold is on the red LED from the threshold to its release; the last press wins | one unit is 1 s: short below 2, dead zone at 2, long from 3. Three presses: two overlap one dispatch |
| `calibration` | readback, range, persistence | values 1..4 with 2..3 valid: below, both ends, above. Any record an older firmware may have left |
| `join` | one answer per join, seen when it is given; flag and blue LED without their steering only after a refusal or the one race; a waiting user is answered; the poll interval is the attribute's whenever joined; no turbo poll without a parent but in the one race | queue of 2, two joins, unbounded resets, wakes, leaves, stack steerings and other patterns on the LED |

`pulse`, `filter` and `calibration` check their `TypeOK`, where the ranges are a question (a counter
that wraps, a timer, a record of an older firmware); those of the other modules are conjuncts of
the invariants proved in section 5.
Deadlock is checked everywhere except in `pulse`, where the number of boots is bounded and
the device may be off for good.

Refuted claims. Each of these runs checks one sentence of a doc or comment and shows the
code doing otherwise:

| Run | Claim | What happens |
|---|---|---|
| `publish_freshest` | `zigbee_app.c:1345-1349`: single writer, freshest total | the tick reads the total, blocks in the ADC while main() publishes a newer one, then stores its older one over it |
| `button_boot_hold` | `src/docs/hardware.md:226`: boot-hold keeps the join | released after the interrupt is armed, the hold is measured from uptime 0 and dispatched as a factory reset |
| `button_aborts` | `src/docs/hardware.md:244`: "release now to abort" | the red LED is armed at the threshold of the reset itself (`main.c:137`): a release while it is lit resets |
| `calibration_width` | `zigbee_app.c:913-918` and `src/seeed-studio-zigbee-energy-meter/docs/working/2026-07-30-min-pulse-width-impl2.md:92-97`: a rejected width is rolled back | the width is rolled back to what the attribute holds, which is already the rejected value |

### Known disagreements without a run

- *"Z2M sees a live value on the very first read"* (`main.c:559-560`). ZBOSS is up before the
  first publish, so that a read can find the initial zero; after fatal code 5 it finds it
  for ever. `EventuallyFresh` excepts just that (`main = "halted"`).
- *"Any legal filter can't miss real pulses"* (`calibration.h:33-35`). A threshold lowered
  below the running timer lets the compare happen only after a wrap of TIMER3: a pulse that
  ends before, 65 ms later at most, is not counted. `UndisturbedPulse` excepts
  reprogrammed pulses and `LateNotNever` says what is left for them; edges of the other
  input in the same pulse void both (`crossed`).
- *"The same tick's battery value"* (`zigbee_app.c:1276-1279`). `main()` can store the pair it converted
  before the tick asked over the tick's own. The window is narrow: `main()` must be held up between
  its conversion and its stores for the length of the tick's conversion, by interrupts, or by the
  warning it logs before it stores a failed one. `ReportCarriesItsBattery` allows exactly this
  (`late`), and one conversion of difference.
- *Pairs of two samples.* With two writers the voltage of one conversion can be reported with
  the percentage of another, and the copying, which both can cut, widens this. `PairNeverFarApart` gives
  the bounds. Nothing in the sources speaks of the pair.
- *An answer without its pattern.* A hold pattern, the strongest of a live program, hides a join's
  outcome for good. `AnswerIsVisible` excepts it, and the race of the next item.
- *The "honest" hand-off* (`zigbee_app.c:371-378`). A steering that resolves between the flag and the LED
  request (`zigbee_app.c:1294`) clears the flag and cancels a pattern that is not shown yet: blue then
  blinks with nobody to cancel it. `JoiningIsBacked` excepts exactly this (`raced`).
- *"Blue, blinking: steering in progress"* (`src/docs/hardware.md:245`) and *"stack-internal auto-rejoin
  stays silent"* (`zigbee_app.c:374-377`). `start_steering_cb` only logs a refusal (`zigbee_app.c:1066`):
  flag and pattern stay, through a reattachment and a leave, until some later steering resolves, which
  can be the stack's own. `JoiningIsBacked` shows a refusal as the only way (`refused`), and
  `OneOutcomePerJoin` the extent: never more answers than the user asked for.
- *"No-op when not joined"* (`zigbee_app.h:56-58`). `wake_turbo_poll_cb` does not look at `joined` again
  (`zigbee_app.c:1319`). `NoStrayTurbo` shows a wake that a parting overtakes as the only way to a
  turbo poll without a parent.
- *"Cancelled on the rising edge"* (`main.c:106-107`, `main.c:139-141`). `k_work_cancel_delayable` does not stop a
  running handler: a release interrupt between the dequeuing of `long_press_hold_arm` and its
  `led_request` cancels nothing, and red comes on with the button up, to stay until the next release.
  The theorem `RedOnlyByRace` shows this race as the only way.
- *"Snaps back to the compile-time default"* (`zigbee_app.c:996-1000`), of a setting whose save
  failed. That holds of a device without a record; otherwise the next boot brings the setting that
  was saved before, as `SettingsSurvive` has it.
- *A first save that overwrites.* A boot that could not read the record starts from zero and its first
  save replaces the record (`main.c:511`, `main.c:619`). `StoredNeverDecreases` shows that it is this
  save and no other.
- *Torn totals.* `main.c:297-300` calls the tick's read of a 64-bit total not tearable. It
  is two loads on this core; the difference shows only while a sample carries into the high
  word, once per 2^32 pulses. The model keeps totals below that and treats a store as one step.
- *Bounce.* `user_button_isr` takes the level it reads for the edge that fired. The model
  assumes an edge is served before the next one.

## 4. Fairness

- `PulsePipeline`: weak fairness of main(): it blocks only in timed sleeps. Strong
  fairness of a successful save: a save that is retried for ever does not fail for ever.
  None of pulses, resets or power-on. `EventuallyDurable` says nothing of a device that stays
  off, is parked in a fatal loop, never mounted its store (`~initialized`), or could not load the
  record of this boot (`load_failed`): there it counts from zero on, and its total no longer stands
  for what was counted before.
- `PulseFilter`, `BatteryReport`, `Calibration`: none, they have safety properties only.
- `SummationPublish`: strong fairness of main()'s steps (the higher-priority tick comes
  every five minutes and takes milliseconds), weak fairness of the tick (it rearms itself)
  and of ZBOSS callbacks. None of the button's thread.
- `LedController`: weak fairness of the timer's expiry and of the handler. None of requests.
- `ButtonDispatch`: interrupts are served; the work item and the dispatch thread get the
  processor infinitely often because main() sleeps in every iteration and nothing spins
  (strong, since either can be preempted again and again).
- `JoinLifecycle`: the threads run, and a commissioning that began ends in its signal.

## 5. What is proved

All proofs are checked by TLAPS for every value of the constants that satisfies the module's
named assumption, which asks only for natural numbers, a counter modulus above 1,
positive thresholds and queues, odd blink tick counts, widths that fit the timer, 16-bit readings
and valid defaults. Two theorems on the button have a hypothesis of their own, discussed with them.

`PulsePipelineProofs`: `TypeCorrect`, `PulsesConserved`, `LossBounded`, `NoPhantom`,
`FirstSaved`, `StoredMonotone`, `ImplementsMeter`. The loss bound is not inductive: it speaks of flash
and of the hardware, and only in the sleep. The inductive invariant `IInv` adds

- `Conservation` (total + unsampled = restored base + counted), which relates hardware and RAM;
- `Quiescent`: before the restore the accumulator and the base are still zero, so that a
  restore can be added to what the counter has already seen;
- `Synced`: in a boot whose load worked, flash holds `last_saved_total`, which never
  exceeds the total;
- the bound left by a pass through the policy;
- `Backdated`: until something is saved in this boot the save interval counts as over, so that the
  policy writes at the first change, and what flash holds after a save is `last_saved_total`.

Each action preserves each part; what `Pulse` and `Sample` need of subtraction
modulo the counter's width is in two arithmetic lemmas. The action property and the refinement follow from
the same invariant: each step maps to one step of `DurableMeter` or a stutter.

`LedControllerProofs`: `TypeCorrect`, `NoStaleTick`, `NoFrozenPattern`, `BlinksCounted`,
`FatalCodeShown`, `IdleIsDark`, `ImplementsArbiter`. `TickNeverStale` alone is not inductive: that a
running tick finds its own pattern depends on what an *armed* tick was armed for. `IInv`
adds `TickInv` (armed or running exactly for a tick-driven pattern, and for that one),
`BlinkInv` (lit and flash count as functions of the ticks left, by parity) and `FatalInv`
(flash count and elapsed time as functions of the phase). The interrupt can cancel only the
"held" pattern, which is not tick-driven: this is the argument that makes the unlocked
window of the tick harmless, and the place where a new caller of `led_cancel` would break it.

`PulseFilterProofs`: `TypeCorrect`, `Undisturbed`, `LateButCounted`, `ClockForPulse`,
`ImplementsGate`, for any number of inputs, any set of widths below the timer's modulus and any modulus.
None of the properties is inductive: they speak of pulses and their ages, and what decides
them is the timer. `IInv` adds

- `Measures`: a running timer belongs to one pulse, still undecided and not crossed by
  another input's edge, and never shows more than that pulse's age. This is why
  nothing is counted too early, twice, or after its end;
- `Undecided`: an uncrossed pulse without its count is the one being measured;
- `Approaches`: the distance from the width to the timer, in the timer's modulus, is at least the time
  since the last reprogramming, and the timer shows the pulse's exact age as long as there was
  none. The first bounds how late a count can come, the second says when it must;
- `CountedInTime`, what remains of both once the pulse is counted.

An action that stops the timer and crosses every pulse in progress leaves nothing to
maintain (`CleanSlate`), which settles reset, set-up and the end of a pulse; the work is in the
tick. Each step maps to one step of `PulseGate`, and `CountIsEarned` is the only place
where a count has to be justified.

`SummationPublishProofs`: `TypeCorrect`, `UpdatesKept`, `TwoOrigins`, `FallsByTick`, for any
word widths, gate period, queue and totals. `IInv` adds

- `UpToDate`: with no publish queued and none lost, the attribute is the shadow's total *even
  while main() is about to store*. Every publish stores before it schedules, so that a refused
  one is made good by the one that filled the queue;
- `NotAhead` and `MainRaises`: shadow, tick and attribute never exceed the accumulator, and a
  shadow that main() wrote last is not behind the attribute. Hence only a shadow that the tick
  wrote can lower the reading;
- `Origin` and `Recorded`: whose total the shadow holds.

The split into two words is exact up to its limit and saturates above it (`ScaleReads`), and that
is monotone (`RepresentableMonotone`): what order there is among totals is kept among readings.

`BatteryReportProofs`: `TypeCorrect`, `FreshBattery`, `PairsHold`, `UnknownIsHonest`, for any
readings, battery range, queue and number of samples. The properties speak of what was sent or is shown;
what decides them is what main() is still about to store. `IInv` adds

- `Promised`: each queued report, and the one whose voltage has been copied, finds bytes as new as
  it is owed, now and after main()'s pending stores. A tick that stores while main() has a sample in hand
  is owed that one only, which is the conversion just before its own;
- `OwnStored`: main() leaves no byte behind its own sample;
- `TickOnce`: a tick publishes at most once into a publish of main(), and without one main()'s sample is
  the last conversion. Without this main() could store a sample much older than the one a tick was promised;
- `Recent`: no byte is more than one conversion behind, two between main()'s stores;
- `CopyIsShort`: within a copy each thread converts at most once, so that the voltage that has
  been copied is at most two, or with those four, conversions behind. `PairNeverFarApart` comes
  from this and `Recent`;
- `BytesTell`: the byte for unknown stands for a failed conversion. It rests on `PercentIsAPercent`
  (rounding does not pass 100) and `ReadingsAreKnown` (no reading converts to 255), which hold for every
  16-bit reading and range.

`CalibrationProofs`: `TypeCorrect`, `DivisorHonest`, `FilterStaysValid`, `SettingsKept`, for
any values, valid ranges and valid defaults. `IInv` adds `Wanted` (the settings last saved are what the
records stand for, in every boot and while the device is off) and `FilterAsStored`
(between the two loads of the width, a boot without a read error filters with the record).

`JoinLifecycleProofs`: `TypeCorrect`, `OneAnswer`, `JoiningBacked`, `PollsAsTold`, `AnswerSeen`,
`TurboHasParent`, for any queue and number of joins. `IInv` adds

- `Accounted`: answers given, plus the join whose acknowledgement is showing, plus the one in
  flight, are no more than the joins asked for. The flag outlives its join, but it is set once
  and cleared by the answer;
- `ClearToAnswer`: the success of an earlier join has made way for JOINING before the next is
  answered, which is what lets the weaker outcome be seen;
- `FlagOrRace`: JOINING is about to be requested with the flag up, or after the race; with `JoiningIsBacked`
  itself, which every step keeps;
- `WakeOvertaken`: a wake that is pending off the network was overtaken by the parting.

`ButtonDispatchProofs`: `TypeCorrect`, `HoldShown`, `RedOnlyByRace`, `GesturesOnly`, `BootHoldApart`,
`LastPressNotLost`, for any
thresholds and number of presses. `RedOnlyByRace` says that the red LED ends with the hold (`HoldEndsWithRelease`) unless the
release met the running handler. For it, `IInv` adds `ArmedForHold`: the work item is on its
way only for the hold in progress, and leaves its timer only once that hold is long; a release takes
it away or finds its handler running. `HoldShown` rests on `Shown`, its converse: from the press to the release
the work item is on its way or the LED is on, and nothing that is stronger than the LED is requested
in a program that runs. For the actions, `Paid` counts what the releases so far may
still be turned into (a press that is classified, a duration that is about to be read, the
semaphore) and holds it, with the actions taken, to twice the gestures; `Measured` says
that what the handler measures is what the finger did. `GesturesOnly` assumes
`~HeldThroughBoot`, as its run does: a hold that the interrupt meets in progress is measured from the boot, which
is the disagreement that `button_boot_hold` shows. `BootHoldApart` makes no such assumption and says that
this is all: one such hold, two actions of a kind at most beyond those the gestures explain.
`LastPressNotLost`, under the same assumption, is what of `LastPressHonoured` needs no fairness:
a thread that waits with the semaphore down has acted upon the last press. It is inductive
only by places (`Pending`): a thread that has classified holds the last press in its local, or the
semaphore is up.

Only model-checked: what needs fairness (`EventuallyDurable`, `EventuallyFresh`,
`TransientsEnd`, `LastPressHonoured`, `WaitingIsAnswered`), since the prover has no support
for liveness. Every invariant and action property of the passing runs, and all three refinements, are proved.

## 6. Abstractions worth knowing

- `Pulse` requires fewer than 2^32 pulses between two samples 200 ms apart (the code cannot
  tell more apart).
- Durations from `LongMin` on are equal to the button code and are kept as `LongMin`.
- ZBOSS is external: it commissions one thing at a time, refuses a request meanwhile, may
  steer by itself while off the network, and may report a leave whenever joined. It falls back to
  its own poll interval while it steers (`zigbee_app.c:387-389`). The build is the one with a
  sleepy end device.
- `SummationPublish` leaves the battery out and `BatteryReport` the total: the two travel through
  the same calls but meet in no condition. Both take the queue's refusals into account.
- `BatteryReport` assumes that neither caller outruns the other threads: the five-minute timer does not
  expire twice within one publish of main() (`stalled`), and neither that timer nor the report gate,
  which opens every hundred loops of 200 ms, twice within the two copies of one report (`crossed`).
  A thread held up for so long could report an older sample or a pair further apart.
- A source of `PulseFilter` is what the comparator's hysteresis lets through; an edge and the
  hardware tasks it triggers are one step. Writing to CC[0] the value that the timer holds may or
  may not raise the compare event. Reprogramming is one step (`SetMinWidth`); the driver, which is
  external, takes the stop short away for a few instructions while it writes CC[0], so that a compare event
  just then would leave the timer running to the end of the pulse.
- Fatal codes 1 to 3 are raised before `led_controller_init`, on static state that equals the
  initialised one.
- `tick_handler`'s default case ("stale tick") has no action: `NoStaleTick` shows that it is
  unreachable, and a state that reached it would violate the invariant.

## 7. Not modelled

Check-ins, fast polls and the cadence of the sleepy end device (they happen inside the external
stack; what the application pushes at it is in `JoinLifecycle`); the cluster tables of
`zb_meter_ep.h` and the initial attribute values (static lists of constants); the failures of console,
USB and button configuration, fatal codes 1 to 3, and of the LED itself, which has none to show
(straight-line code ahead of everything modelled; the display of the codes is in
`LedController`); host tools, the Zigbee2MQTT converter and CI (not part of the firmware).

## 8. Plan

Done: pulse filter with its abstract gate and proofs; pulse pipeline with its abstract meter
and proofs; LED controller with its arbiter and proofs; publishing with the 48-bit scaling; battery
reports; button; settings; join lifecycle with its poll interval and the rest of the LED's users.

Proved: every safety property of the passing runs, and the refinements (section 5).

Next:

1. The safety half of more of what is only model-checked: for `EventuallyFresh`, that with everything
   idle and nothing queued or lost the attribute is the accumulator's total unless the tick wrote last;
   for `EventuallyDurable`, that a loop which has nothing to write has everything in flash.
2. An abstract specification of publishing (a reading that follows the total, at a distance) for
   `SummationPublish` to implement.
