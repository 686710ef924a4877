-------------------------- MODULE SummationPublish --------------------------
(***************************************************************************)
(* How a total becomes the CurrentSummationDelivered attribute: the sample *)
(* loop (main thread) and the five-minute report tick (system workqueue)   *)
(* of src/main.c both publish through zigbee_app_publish_summation[_and_   *)
(* report], which leaves the total in one shadow variable and schedules a  *)
(* callback that the ZBOSS thread runs later (src/zigbee_app.c).           *)
(*                                                                         *)
(* The workqueue is a cooperative thread above main(): the tick's handler  *)
(* gives way only while it is blocked in the ADC conversion, and runs from *)
(* there to its end.  The ZBOSS thread interleaves with both.  Totals are  *)
(* 64-bit, two words, but below 2^32 pulses their high word never changes: *)
(* a store is one step.  What the ADC brings is in module BatteryReport.   *)
(***************************************************************************)
EXTENDS MeteringScale, Sequences

CONSTANTS
  Period,      \* ZIGBEE_REPORT_PULSE_HEARTBEAT
  QueueCap,    \* slots of the ZBOSS application callback queue
  MaxTotal,    \* bound on the accumulator total
  MaxOthers    \* bound on the callbacks the button's thread schedules

ASSUME PublishAssumption ==
  /\ Period \in Nat
  /\ QueueCap \in Nat \ {0}
  /\ MaxTotal \in Nat /\ MaxOthers \in Nat

VARIABLES
  main,             \* where the main thread is in its loop
  tick,             \* where metering_report_work_handler is
  acc,              \* acc.total
  last_published_total,
  gate,             \* pulse_heartbeat.counter
  report,           \* main's pending publish is the _and_report flavour
  tick_total,       \* the total the tick's handler read
  pending_total,    \* pending_summation_total
  queue,            \* scheduled ZBOSS callbacks
  attr_total,       \* CurrentSummationDelivered, its two words
  others,           \* callbacks scheduled by the button's thread so far
  lost,             \* ghost: the last publish was refused with no other one queued
  writer            \* ghost: who stored pending_total last

mainVars    == <<acc, last_published_total, gate, report>>
queueVars   == <<queue, others, lost>>
shadow == <<pending_total, writer>>
vars == <<main, tick, mainVars, tick_total, shadow, queueVars, attr_total>>

PublishQueued == \E i \in DOMAIN queue : queue[i] # "other"

\* ZB_SCHEDULE_APP_CALLBACK of a publish: a full queue refuses, no caller looks.
Schedule(entry) ==
  IF Len(queue) < QueueCap
  THEN queue' = Append(queue, entry) /\ lost' = FALSE
  ELSE UNCHANGED queue /\ lost' = ~PublishQueued

\* main() has restored a total and brought up ZBOSS: a coordinator can read the
\* attribute, still at metering_attrs_init's zero.
Init ==
  /\ main = "arm" /\ tick = "off"
  /\ acc \in 0..MaxTotal
  /\ last_published_total = acc
  /\ gate = 0 /\ report = FALSE
  /\ tick_total = 0
  /\ pending_total = 0 /\ writer = "main"
  /\ queue = <<>> /\ others = 0 /\ lost = FALSE
  /\ attr_total = ScaleToU48(0)
-----------------------------------------------------------------------------
\* user_button_arm_irq before the first publish: failing, main() stops for good.
ArmIrq ==
  /\ main = "arm"
  /\ main' \in {"store", "halted"}
  /\ UNCHANGED <<tick, mainVars, tick_total, shadow, queueVars, attr_total>>

SleepForever == main = "halted" /\ UNCHANGED vars
-----------------------------------------------------------------------------
(***************************************************************************)
(* The sample loop.                                                        *)
(***************************************************************************)

\* report_gate_advance returns true.
GateOpens == Period # 0 /\ gate + 1 >= Period

\* Mutant of Update: last_published_total is never updated.
UpdateUnrecorded ==
  /\ main = "sample"
  /\ acc' \in acc..MaxTotal
  /\ main' = IF acc' = last_published_total THEN "sleep" ELSE "store"
  /\ UNCHANGED <<tick, last_published_total, gate, report, tick_total,
                 shadow, queueVars, attr_total>>

\* pulse_accumulator_update, and what main() makes of the new total: a changed
\* one is published, every Period-th time with an explicit report.
Update ==
  /\ main = "sample"
  /\ acc' \in acc..MaxTotal
  /\ \/ /\ acc' = last_published_total
        /\ main' = "sleep"
        /\ UNCHANGED <<last_published_total, gate, report>>
     \/ /\ acc' # last_published_total
        /\ last_published_total' = acc'
        /\ report' = GateOpens
        /\ gate' = IF GateOpens THEN 0 ELSE IF Period = 0 THEN gate ELSE gate + 1
        /\ main' = IF GateOpens THEN "adc" ELSE "store"
  /\ UNCHANGED <<tick, tick_total, shadow, queueVars, attr_total>>

\* The blocking conversion of zigbee_app_publish_summation_and_report.
MainAdcDone ==
  /\ main = "adc"
  /\ main' = "store"
  /\ UNCHANGED <<tick, mainVars, tick_total, shadow, queueVars, attr_total>>

\* pending_summation_total = pulse_total.  The tick can come before the
\* scheduling that follows.
MainStore ==
  /\ main = "store"
  /\ pending_total' = acc /\ writer' = "main"
  /\ main' = "schedule"
  /\ UNCHANGED <<tick, mainVars, tick_total, queueVars, attr_total>>

\* The first publish is followed by arming the report tick.
MainSchedule ==
  /\ main = "schedule"
  /\ Schedule(IF report THEN "report" ELSE "write")
  /\ main' = "sleep"
  /\ tick' = IF tick = "off" THEN "idle" ELSE tick
  /\ UNCHANGED <<mainVars, tick_total, shadow, others, attr_total>>

MainSleep ==
  /\ main = "sleep"
  /\ main' = "sample"
  /\ UNCHANGED <<tick, mainVars, tick_total, shadow, queueVars, attr_total>>
-----------------------------------------------------------------------------
(***************************************************************************)
(* metering_report_work_handler, armed once main() has published.          *)
(***************************************************************************)

\* Mutant of TickStart: keeps the first total it ever read.
TickCachesTotal ==
  /\ tick = "idle"
  /\ tick_total' = IF tick_total = 0 THEN acc ELSE tick_total
  /\ tick' = "adc"
  /\ UNCHANGED <<main, mainVars, shadow, queueVars, attr_total>>

TickStart ==
  /\ tick = "idle"
  /\ tick_total' = acc
  /\ tick' = "adc"
  /\ UNCHANGED <<main, mainVars, shadow, queueVars, attr_total>>

\* The conversion is complete: from here no thread can come between the store,
\* the scheduling and k_work_reschedule, which arms the next tick.
TickPublish ==
  /\ tick = "adc"
  /\ pending_total' = tick_total /\ writer' = "tick"
  /\ Schedule("report")
  /\ tick' = "idle"
  /\ UNCHANGED <<main, mainVars, tick_total, others, attr_total>>
-----------------------------------------------------------------------------
(***************************************************************************)
(* publish_summation_cb and publish_summation_and_report_cb: both write    *)
(* the attribute; the frame the second one sends, if there is a reporting  *)
(* slot and a free OUT buffer, carries what it has just written.           *)
(***************************************************************************)

WriteSummation ==
  /\ queue # <<>> /\ Head(queue) = "write"
  /\ queue' = Tail(queue)
  /\ attr_total' = ScaleToU48(pending_total)
  /\ UNCHANGED <<main, tick, mainVars, others, lost, tick_total, shadow>>

\* Mutant of WriteAndReport: reports without writing.
ReportOnly ==
  /\ queue # <<>> /\ Head(queue) = "report"
  /\ queue' = Tail(queue)
  /\ UNCHANGED <<main, tick, mainVars, others, lost, tick_total, shadow,
                 attr_total>>

WriteAndReport ==
  /\ queue # <<>> /\ Head(queue) = "report"
  /\ queue' = Tail(queue)
  /\ attr_total' = ScaleToU48(pending_total)
  /\ UNCHANGED <<main, tick, mainVars, others, lost, tick_total, shadow>>

\* start_steering_cb, factory_reset_cb or wake_turbo_poll_cb.
RunOther ==
  /\ queue # <<>> /\ Head(queue) = "other"
  /\ queue' = Tail(queue)
  /\ UNCHANGED <<main, tick, mainVars, tick_total, shadow, others, lost,
                 attr_total>>
-----------------------------------------------------------------------------
\* The button's thread schedules a callback of its own; it is the lowest-
\* priority one and runs only while both others are blocked.
OtherSchedules ==
  /\ main \in {"adc", "sleep"}
  /\ others < MaxOthers /\ Len(queue) < QueueCap
  /\ others' = others + 1
  /\ queue' = Append(queue, "other")
  /\ UNCHANGED <<main, tick, mainVars, tick_total, shadow, lost, attr_total>>

MainStep  == ArmIrq \/ Update \/ MainAdcDone \/ MainStore \/ MainSchedule \/ MainSleep
TickStep  == TickStart \/ TickPublish
ZbossStep == WriteSummation \/ WriteAndReport \/ RunOther

Next == MainStep \/ SleepForever \/ TickStep \/ ZbossStep \/ OtherSchedules
Spec == Init /\ [][Next]_vars

\* Every thread is scheduled again; the five-minute tick, whose timer always
\* expires again, leaves main() enough time for its next step.
FairSpec ==
  Spec /\ SF_vars(MainStep) /\ WF_vars(TickStep) /\ WF_vars(ZbossStep)
-----------------------------------------------------------------------------
TypeOK ==
  /\ main \in {"arm", "halted", "sample", "adc", "store", "schedule", "sleep"}
  /\ tick \in {"off", "idle", "adc"}
  /\ {acc, last_published_total, tick_total, pending_total} \subseteq 0..MaxTotal
  /\ gate \in Nat /\ report \in BOOLEAN
  /\ attr_total \in Words
  /\ queue \in Seq({"write", "report", "other"}) /\ Len(queue) <= QueueCap
  /\ others \in 0..MaxOthers /\ lost \in BOOLEAN /\ writer \in {"main", "tick"}

\* What the attribute can say of a total.
Representable(total) == IF total <= SummationMax THEN total ELSE SummationMax

\* A callback dropped by a full queue loses no update as long as some publish
\* is queued: every publish stores before it schedules, so the queued one brings
\* the newer total too (zigbee_app.c, zigbee_app_publish_summation).  Once no
\* publish is under way the attribute is what the shadow variable holds.
NoLostUpdate ==
  /\ ~PublishQueued /\ ~lost
  /\ main \notin {"store", "schedule"} /\ tick # "off"
  => Reading(attr_total) = Representable(pending_total)

\* With neither writer at work the shadow holds main()'s last total or the last
\* tick's: two unsynchronised writers, but no third value and none older than
\* the last tick.
ShadowOrigin ==
  main \in {"sleep", "sample"} /\ tick \in {"off", "idle"} =>
    pending_total \in {last_published_total, tick_total}

\* metering_scale.h:34-38: a summation that falls is taken for a meter reset.  It
\* falls only where a tick has stored its total over main()'s, never by a publish
\* of main() and never for want of room.
FallsOnlyByTick ==
  [][Reading(attr_total') < Reading(attr_total) => writer = "tick"]_vars

\* Whatever the interleaving of the two writers and however many callbacks a
\* full queue refused: once the pulses stop the attribute settles on the
\* accumulator's total ("the next tick corrects it"), or as far as it reaches,
\* unless main() stopped with fatal code 5 and the network reads a zero for ever.
EventuallyFresh ==
  <>[](main = "halted" \/ Reading(attr_total) = Representable(acc))
-----------------------------------------------------------------------------
\* zigbee_app.c on the shadow variable: "single-writer/single-reader", so that
\* the ZBOSS thread reports "the freshest total, not a queue of stale ones".
\* With every publish finished and every callback run, that is main()'s last.
FreshestTotalWins ==
  queue = <<>> /\ main \in {"sleep", "sample"} /\ tick = "idle" =>
    Reading(attr_total) = Representable(last_published_total)
=============================================================================
