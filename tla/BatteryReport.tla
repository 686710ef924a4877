---------------------------- MODULE BatteryReport ----------------------------
(***************************************************************************)
(* The battery's way into a report (src/zigbee_app.c): the sample loop     *)
(* (main thread) and the five-minute tick (system workqueue) each convert  *)
(* and leave the result in two shadow bytes, one store each; the ZBOSS     *)
(* thread later copies them into the attributes, one call each, and sends  *)
(* the report.                                                             *)
(*                                                                         *)
(* The workqueue is cooperative and above main(): the tick gives way only  *)
(* while the ADC converts, and main() can stand still between any two of   *)
(* its steps while the tick comes and goes.  Both can come between the     *)
(* ZBOSS thread's two copies.  How the totals travel is in module          *)
(* SummationPublish.                                                       *)
(***************************************************************************)
EXTENDS BatteryLevel, Sequences

CONSTANTS
  Readings,           \* what the ADC may measure, in mV
  EmptyMv, FullMv,    \* CONFIG_APP_BATTERY_EMPTY_MV, CONFIG_APP_BATTERY_FULL_MV
  QueueCap,           \* slots of the ZBOSS application callback queue
  MaxSamples          \* bound on the conversions

ASSUME BatteryAssumption ==
  /\ Readings \subseteq Millivolts
  /\ EmptyMv \in Millivolts /\ FullMv \in Millivolts
  /\ QueueCap \in Nat \ {0} /\ MaxSamples \in Nat

VARIABLES
  main,         \* main(): idle, adc, voltage, percentage, schedule
  tick,         \* metering_report_work_handler: idle, adc
  hand,         \* the sample main() has converted and not yet stored
  voltage,      \* pending_battery_voltage
  percentage,   \* pending_battery_percentage
  queue,        \* scheduled ZBOSS callbacks
  job,          \* the report callback between its two copies, or Other
  attr,         \* the BatteryVoltage and BatteryPercentageRemaining attributes
  sent,         \* ghost: the last report frame, see Frame
  sampled,      \* ghost: number of the last conversion
  stalled,      \* ghost: a tick met main() in the publish that it is still in
  crossed       \* ghost: who has converted since the first of the two copies

shadow == <<voltage, percentage>>
ghosts == <<sampled, stalled, crossed>>
vars   == <<main, tick, hand, shadow, queue, job, attr, sent, ghosts>>

\* A byte, with the conversion it comes from: its number and whether it failed.
NoSample == [n |-> 0, failed |-> TRUE, byte |-> Unknown]

VoltageOf(s) ==
  [n |-> s.n, failed |-> s.failed,
   byte |-> IF s.failed THEN Unknown ELSE ZclVoltage(s.mv)]

PercentageOf(s) ==
  [n |-> s.n, failed |-> s.failed,
   byte |-> IF s.failed THEN Unknown
            ELSE ZclPercentage(Percent(s.mv, EmptyMv, FullMv))]

Sample == [n : {sampled + 1}, failed : {FALSE}, mv : Readings]
            \cup [n : {sampled + 1}, failed : {TRUE}, mv : {0}]

\* A callback, with the conversion its caller made for it, and whether main() still
\* had an earlier one in hand when that was stored.
Other == [kind |-> "other", own |-> 0, late |-> FALSE]
Report(own, late) == [kind |-> "report", own |-> own, late |-> late]

\* What a frame carries, and for whom.
Frame(bytes, entry) ==
  [voltage |-> bytes.voltage.n, percentage |-> bytes.percentage.n,
   own |-> entry.own, late |-> entry.late]

Storing == main \in {"voltage", "percentage"}
Copying == job.kind = "report"

Converts(caller) ==
  /\ sampled < MaxSamples
  /\ sampled' = sampled + 1
  /\ crossed' = IF Copying THEN crossed \cup {caller} ELSE crossed

\* ZB_SCHEDULE_APP_CALLBACK: a full queue refuses, no caller looks.
Schedule(entry) ==
  queue' = IF Len(queue) < QueueCap THEN Append(queue, entry) ELSE queue

\* power_config_attrs_init, and the shadow bytes' static initialisation.
Init ==
  /\ main = "idle" /\ tick = "idle"
  /\ hand = [n |-> 0, failed |-> TRUE, mv |-> 0]
  /\ voltage = NoSample /\ percentage = NoSample
  /\ queue = <<>> /\ job = Other
  /\ attr = [voltage |-> NoSample, percentage |-> NoSample]
  /\ sent = Frame(attr, Other)
  /\ sampled = 0 /\ stalled = FALSE /\ crossed = {}
-----------------------------------------------------------------------------
(***************************************************************************)
(* main(), when the report gate opens: zigbee_app_publish_summation_and_   *)
(* report and battery_sample.  The gate does not open twice, a hundred     *)
(* loops apart, within one copy.                                           *)
(***************************************************************************)

MainRequests ==
  /\ main = "idle" /\ "main" \notin crossed
  /\ main' = "adc"
  /\ UNCHANGED <<tick, hand, shadow, queue, job, attr, sent, ghosts>>

MainAdcDone ==
  /\ main = "adc"
  /\ main' = "voltage"
  /\ hand' \in Sample
  /\ Converts("main")
  /\ UNCHANGED <<tick, shadow, queue, job, attr, sent, stalled>>

MainStoresVoltage ==
  /\ main = "voltage"
  /\ main' = "percentage"
  /\ voltage' = VoltageOf(hand)
  /\ UNCHANGED <<tick, hand, percentage, queue, job, attr, sent, ghosts>>

MainStoresPercentage ==
  /\ main = "percentage"
  /\ main' = "schedule"
  /\ percentage' = PercentageOf(hand)
  /\ UNCHANGED <<tick, hand, voltage, queue, job, attr, sent, ghosts>>

MainSchedules ==
  /\ main = "schedule"
  /\ main' = "idle"
  /\ Schedule(Report(hand.n, FALSE))
  /\ stalled' = FALSE
  /\ UNCHANGED <<tick, hand, shadow, job, attr, sent, sampled, crossed>>
-----------------------------------------------------------------------------
(***************************************************************************)
(* The tick.  Its timer does not expire twice, five minutes apart, within  *)
(* one publish of main() or one copy.                                      *)
(***************************************************************************)

TickRequests ==
  /\ tick = "idle" /\ ~stalled /\ "tick" \notin crossed
  /\ tick' = "adc"
  /\ UNCHANGED <<main, hand, shadow, queue, job, attr, sent, ghosts>>

\* From the end of the conversion to its return the handler keeps the CPU.
TickPublishes ==
  /\ tick = "adc"
  /\ tick' = "idle"
  /\ \E s \in Sample :
       voltage' = VoltageOf(s) /\ percentage' = PercentageOf(s)
  /\ Converts("tick")
  /\ stalled' = (main # "idle")
  /\ Schedule(Report(sampled + 1, Storing))
  /\ UNCHANGED <<main, hand, job, attr, sent>>
-----------------------------------------------------------------------------
(***************************************************************************)
(* The ZBOSS thread: publish_summation_and_report_cb, which calls          *)
(* battery_write_attributes.                                               *)
(***************************************************************************)

CopiesVoltage ==
  /\ ~Copying
  /\ queue # <<>> /\ Head(queue).kind = "report"
  /\ job' = Head(queue) /\ queue' = Tail(queue)
  /\ attr' = [attr EXCEPT !.voltage = voltage]
  /\ UNCHANGED <<main, tick, hand, shadow, sent, ghosts>>

\* Mutants of CopiesPercentageAndReports: the frame goes out first; the percentage
\* is left to the next report.
ReportsBeforeCopy ==
  /\ Copying
  /\ job' = Other
  /\ attr' = [attr EXCEPT !.percentage = percentage]
  /\ sent' = Frame(attr, job)
  /\ crossed' = {}
  /\ UNCHANGED <<main, tick, hand, shadow, queue, sampled, stalled>>

ReportsVoltageOnly ==
  /\ Copying
  /\ job' = Other
  /\ crossed' = {}
  /\ UNCHANGED <<main, tick, hand, shadow, queue, attr, sent, sampled, stalled>>

\* The frame goes out if there is a reporting slot and an OUT buffer.
CopiesPercentageAndReports ==
  /\ Copying
  /\ job' = Other
  /\ attr' = [attr EXCEPT !.percentage = percentage]
  /\ sent' = Frame(attr', job) \/ UNCHANGED sent
  /\ crossed' = {}
  /\ UNCHANGED <<main, tick, hand, shadow, queue, sampled, stalled>>

\* Any other callback, which leaves the battery alone.
RunOther ==
  /\ ~Copying
  /\ queue # <<>> /\ Head(queue).kind = "other"
  /\ queue' = Tail(queue)
  /\ UNCHANGED <<main, tick, hand, shadow, job, attr, sent, ghosts>>

OtherSchedules ==
  /\ Len(queue) < QueueCap
  /\ Schedule(Other)
  /\ UNCHANGED <<main, tick, hand, shadow, job, attr, sent, ghosts>>

MainStep  == \/ MainRequests \/ MainAdcDone \/ MainStoresVoltage
             \/ MainStoresPercentage \/ MainSchedules
TickStep  == TickRequests \/ TickPublishes
ZbossStep == CopiesVoltage \/ CopiesPercentageAndReports \/ RunOther

Next == MainStep \/ TickStep \/ ZbossStep \/ OtherSchedules
Spec == Init /\ [][Next]_vars
-----------------------------------------------------------------------------
Number == 0..MaxSamples
Half   == [n : Number, failed : BOOLEAN, byte : Byte]
Entry  == [kind : {"report", "other"}, own : Number, late : BOOLEAN]

TypeOK ==
  /\ main \in {"idle", "adc", "voltage", "percentage", "schedule"}
  /\ tick \in {"idle", "adc"}
  /\ hand \in [n : Number, failed : BOOLEAN, mv : Readings \cup {0}]
  /\ voltage \in Half /\ percentage \in Half
  /\ queue \in Seq(Entry) /\ Len(queue) <= QueueCap
  /\ job \in Entry
  /\ attr \in [voltage : Half, percentage : Half]
  /\ sent \in [voltage : Number, percentage : Number, own : Number, late : BOOLEAN]
  /\ sampled \in Number /\ stalled \in BOOLEAN /\ crossed \subseteq {"main", "tick"}

\* Neither byte of a report is older than the conversion made for it, whoever else
\* stores, however late it runs and wherever the copying is cut; but a tick that
\* finds main() with a sample in hand can see that one, the last before its own,
\* in its report, which zigbee_app.c:1276-1279 rules out ("the same tick's battery
\* value, not the previous one").
Oldest(entry) == IF entry.late THEN entry.own - 1 ELSE entry.own
ReportCarriesItsBattery ==
  sent.voltage >= Oldest(sent) /\ sent.percentage >= Oldest(sent)

\* Two unsynchronised writers and a reader that each take two steps can pair the
\* voltage of one conversion with the percentage of another: between reports, never
\* of more than four conversions apart (battery_sample, battery_write_attributes).
PairNeverFarApart ==
  ~Copying => /\ attr.voltage.n - attr.percentage.n <= 2
              /\ attr.percentage.n - attr.voltage.n <= 4

\* battery_level.h:42-45, zigbee_app.c:1220-1223: the coordinator sees "unknown"
\* for a conversion that failed, or none yet, and for no other.
UnknownMeansFailed ==
  \A half \in {attr.voltage, attr.percentage} : half.byte = Unknown <=> half.failed
=============================================================================
