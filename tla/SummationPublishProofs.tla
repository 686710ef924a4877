----------------------- MODULE SummationPublishProofs -----------------------
(***************************************************************************)
(* Proofs about publishing a total, for any callback queue, any report     *)
(* period and any widths of the attribute's two words.                     *)
(***************************************************************************)
EXTENDS SummationPublish, TLAPS

(***************************************************************************)
(* metering_scale.c: the words of a total, and what a reader makes of them.*)
(***************************************************************************)

LEMMA Division ==
  ASSUME NEW t \in Nat, NEW m \in Nat \ {0}
  PROVE  /\ t % m \in 0..(m - 1)
         /\ t \div m \in Nat
         /\ t = m * (t \div m) + (t % m)
  <1>1. t % m \in 0..(m - 1) /\ t \div m \in Nat
    OBVIOUS
  <1>2. t = m * (t \div m) + (t % m)
    BY Z3
  <1> QED
    BY <1>1, <1>2

\* A total of fewer than LowMod * HighMod pulses has a short high word.
LEMMA ShortQuotient ==
  ASSUME NEW l \in Nat \ {0}, NEW h \in Nat \ {0}, NEW q \in Nat, l * q < l * h
  PROVE  q < h
  OBVIOUS

LEMMA SmallRemainder ==
  ASSUME NEW q \in Nat, NEW m \in Nat \ {0}, q < m
  PROVE  q % m = q
  OBVIOUS

\* A total that fits is read back from its two words.
LEMMA SplitReads ==
  ASSUME NEW t \in Nat, t <= SummationMax
  PROVE  Split(t) \in Words /\ Reading(Split(t)) = t
  <1> USE WordAssumption
  <1> DEFINE q == t \div LowMod
             r == t % LowMod
  <1>1. q \in Nat /\ r \in 0..(LowMod - 1) /\ t = LowMod * q + r
    BY Division
  <1>2. q < HighMod
    <2>1. t < LowMod * HighMod
      BY DEF SummationMax
    <2>2. LowMod * q < LowMod * HighMod
      BY <1>1, <2>1
    <2> QED
      BY <1>1, <2>2, ShortQuotient
  <1>3. q % HighMod = q
    BY <1>1, <1>2, SmallRemainder
  <1>4. Split(t) = [low |-> r, high |-> q]
    BY <1>3 DEF Split
  <1> QED
    BY <1>1, <1>2, <1>4 DEF Words, Reading

\* SummationMax is a natural number: neither word is empty.
LEMMA MaxIsNat == SummationMax \in Nat
  <1>1. LowMod * HighMod >= 1
    BY WordAssumption
  <1> QED
    BY <1>1, WordAssumption DEF SummationMax

\* Every total is read as itself, or as the most the words can hold.
LEMMA ScaleReads ==
  ASSUME NEW t \in Nat
  PROVE  /\ ScaleToU48(t) \in Words
         /\ Reading(ScaleToU48(t)) = Representable(t)
         /\ Representable(t) \in Nat
  <1>1. CASE t <= SummationMax
    BY <1>1, SplitReads, MaxIsNat DEF ScaleToU48, Representable
  <1>2. CASE ~(t <= SummationMax)
    BY <1>2, SplitReads, MaxIsNat DEF ScaleToU48, Representable
  <1> QED
    BY <1>1, <1>2

LEMMA ReadingIsInt == \A v \in Words : Reading(v) \in Int
  <1> SUFFICES ASSUME NEW v \in Words PROVE Reading(v) \in Int
    OBVIOUS
  <1>1. v.high \in Int /\ v.low \in Int /\ LowMod \in Int
    BY WordAssumption DEF Words
  <1> QED
    BY <1>1 DEF Reading

\* A larger total never reads as less.
LEMMA RepresentableMonotone ==
  ASSUME NEW a \in Nat, NEW b \in Nat, a <= b
  PROVE  Representable(a) <= Representable(b)
  BY MaxIsNat DEF Representable
-----------------------------------------------------------------------------
(***************************************************************************)
(* The callback queue.                                                     *)
(***************************************************************************)

Entry == {"write", "report", "other"}

\* A publish that is scheduled is queued, or a publish is queued already, or it
\* is known as lost.
LEMMA Scheduling ==
  ASSUME NEW entry \in {"write", "report"}, Schedule(entry),
         queue \in Seq(Entry), Len(queue) <= QueueCap
  PROVE  /\ queue' \in Seq(Entry) /\ Len(queue') <= QueueCap
         /\ lost' \in BOOLEAN
         /\ PublishQueued' \/ lost'
  <1>1. CASE Len(queue) < QueueCap
    <2>1. queue' = Append(queue, entry) /\ lost' = FALSE
      BY <1>1 DEF Schedule
    <2>2. /\ queue' \in Seq(Entry) /\ Len(queue') = Len(queue) + 1
          /\ queue'[Len(queue) + 1] = entry
      BY <2>1 DEF Entry
    <2>3. Len(queue) + 1 \in DOMAIN queue' /\ Len(queue') <= QueueCap
      BY <1>1, <2>2, PublishAssumption
    <2> QED
      BY <2>1, <2>2, <2>3 DEF PublishQueued
  <1>2. CASE ~(Len(queue) < QueueCap)
    <2>1. queue' = queue /\ lost' = ~PublishQueued
      BY <1>2 DEF Schedule
    <2> QED
      BY <2>1 DEF PublishQueued
  <1> QED
    BY <1>1, <1>2

\* A callback of the button's thread takes no publish away.
LEMMA OthersQueued ==
  ASSUME queue' = Append(queue, "other"), queue \in Seq(Entry), Len(queue) < QueueCap
  PROVE  /\ queue' \in Seq(Entry) /\ Len(queue') <= QueueCap
         /\ PublishQueued => PublishQueued'
  <1>1. /\ queue' \in Seq(Entry) /\ Len(queue') = Len(queue) + 1
        /\ \A i \in DOMAIN queue : i \in DOMAIN queue' /\ queue'[i] = queue[i]
    BY DEF Entry
  <1> QED
    BY <1>1, PublishAssumption DEF PublishQueued

\* Neither does running one.
LEMMA Popping ==
  ASSUME queue # <<>>, queue' = Tail(queue), queue \in Seq(Entry), Len(queue) <= QueueCap
  PROVE  /\ queue' \in Seq(Entry) /\ Len(queue') <= QueueCap
         /\ Head(queue) = "other" /\ PublishQueued => PublishQueued'
  <1>1. /\ queue' \in Seq(Entry) /\ Len(queue') = Len(queue) - 1 /\ Len(queue) \in Nat
        /\ \A i \in 1..Len(queue') : queue'[i] = queue[i + 1]
        /\ Head(queue) = queue[1] /\ DOMAIN queue = 1..Len(queue)
        /\ DOMAIN queue' = 1..Len(queue')
    BY DEF Entry
  <1>2. ASSUME Head(queue) = "other", NEW i \in DOMAIN queue, queue[i] # "other"
        PROVE  i - 1 \in DOMAIN queue' /\ queue'[i - 1] # "other"
    BY <1>1, <1>2
  <1>3. Head(queue) = "other" /\ PublishQueued => PublishQueued'
    BY <1>2 DEF PublishQueued
  <1> QED
    BY <1>1, <1>3, PublishAssumption
-----------------------------------------------------------------------------
(***************************************************************************)
(* The inductive invariant.                                                *)
(***************************************************************************)

\* The loop takes a note of every total it has read.
Recorded == acc = last_published_total

\* Neither the shadow, nor the tick, nor the attribute is ahead of the total.
NotAhead ==
  /\ pending_total <= acc /\ tick_total <= acc
  /\ Reading(attr_total) <= Representable(acc)

\* A shadow that main() wrote last is not behind the attribute.
MainRaises == writer = "main" => Reading(attr_total) <= Representable(pending_total)

\* NoLostUpdate holds even while main() is about to store.
UpToDate ==
  ~PublishQueued /\ ~lost /\ main # "schedule" /\ tick # "off" =>
    Reading(attr_total) = Representable(pending_total)

\* ShadowOrigin holds from main()'s store on.
Origin ==
  main \in {"schedule", "sleep", "sample"} /\ tick \in {"off", "idle"} =>
    pending_total \in {last_published_total, tick_total}

IInv == /\ TypeOK /\ Recorded /\ NotAhead /\ MainRaises /\ UpToDate /\ Origin

LEMMA InitIInv == Init => IInv
  <1> SUFFICES ASSUME Init PROVE IInv
    OBVIOUS
  <1> USE PublishAssumption
  <1>1. /\ attr_total \in Words /\ Reading(attr_total) = Representable(0)
        /\ acc \in 0..MaxTotal /\ Representable(0) <= Representable(acc)
    BY ScaleReads, RepresentableMonotone DEF Init
  <1>2. TypeOK
    <2>1. /\ queue \in Seq({"write", "report", "other"}) /\ Len(queue) <= QueueCap
          /\ gate \in Nat /\ others \in 0..MaxOthers
      BY DEF Init
    <2>2. report \in BOOLEAN /\ lost \in BOOLEAN
      BY DEF Init
    <2>3. {acc, last_published_total, tick_total, pending_total} \subseteq 0..MaxTotal
      BY DEF Init
    <2>4. main = "arm" /\ tick = "off" /\ writer = "main"
      BY DEF Init
    <2> QED
      BY <1>1, <2>1, <2>2, <2>3, <2>4 DEF TypeOK
  <1>3. Recorded /\ NotAhead /\ MainRaises
    BY <1>1, ScaleReads DEF Init, Recorded, NotAhead, MainRaises
  <1>4. UpToDate /\ Origin
    BY DEF Init, UpToDate, Origin
  <1> QED
    BY <1>2, <1>3, <1>4 DEF IInv
-----------------------------------------------------------------------------
(***************************************************************************)
(* Each action keeps the invariant.                                        *)
(***************************************************************************)

\* main() arms the interrupt, waits for the ADC or sleeps: it only moves on.
LEMMA MovesKeep == IInv /\ (ArmIrq \/ MainAdcDone \/ MainSleep) => IInv'
  <1> SUFFICES ASSUME IInv, ArmIrq \/ MainAdcDone \/ MainSleep PROVE IInv'
    OBVIOUS
  <1>1. /\ UNCHANGED <<tick, mainVars, tick_total, shadow, queueVars, attr_total>>
        /\ main' \in {"store", "halted", "sample"}
        /\ main' = "sample" => main = "sleep"
        /\ main # "schedule"
    BY DEF ArmIrq, MainAdcDone, MainSleep
  <1> USE <1>1 DEF IInv, mainVars, shadow, queueVars
  <1>2. TypeOK'
    BY DEF TypeOK
  <1>3. Recorded' /\ NotAhead' /\ MainRaises'
    BY DEF Recorded, NotAhead, MainRaises, Reading, Representable
  <1>4. UpToDate' /\ Origin'
    BY DEF UpToDate, Origin, PublishQueued, Reading, Representable
  <1> QED
    BY <1>2, <1>3, <1>4

LEMMA UpdateKeeps == IInv /\ Update => IInv'
  <1> SUFFICES ASSUME IInv, Update PROVE IInv'
    OBVIOUS
  <1> USE PublishAssumption DEF IInv
  <1>1. /\ UNCHANGED <<tick, tick_total, pending_total, writer, queue, others, lost,
                       attr_total>>
        /\ main = "sample" /\ acc' \in acc..MaxTotal /\ acc \in 0..MaxTotal
    BY DEF Update, shadow, queueVars, TypeOK
  <1>2. \/ /\ acc' = last_published_total /\ main' = "sleep"
           /\ UNCHANGED <<last_published_total, gate, report>>
        \/ /\ last_published_total' = acc' /\ report' \in BOOLEAN /\ gate' \in Nat
           /\ main' \in {"adc", "store"}
    <2>1. GateOpens \in BOOLEAN
      BY DEF GateOpens
    <2>2. gate \in Nat
      BY DEF TypeOK
    <2> QED
      BY <2>1, <2>2 DEF Update
  <1>3. TypeOK'
    BY <1>1, <1>2 DEF TypeOK
  <1>4. Recorded' /\ MainRaises'
    BY <1>1, <1>2 DEF Recorded, MainRaises, Reading, Representable
  <1>5. NotAhead'
    <2>1. Representable(acc) <= Representable(acc')
      BY <1>1, RepresentableMonotone
    <2>2. Representable(acc) \in Nat /\ Representable(acc') \in Nat
      BY <1>1, ScaleReads
    <2>3. Reading(attr_total) \in Int
      BY ReadingIsInt DEF TypeOK
    <2>4. Reading(attr_total) <= Representable(acc')
      BY <2>1, <2>2, <2>3 DEF NotAhead
    <2>5. Reading(attr_total)' = Reading(attr_total) /\ Representable(acc)' = Representable(acc')
      BY <1>1 DEF Reading, Representable
    <2> QED
      BY <1>1, <2>4, <2>5 DEF NotAhead, TypeOK
  <1>6. UpToDate' /\ Origin'
    BY <1>1, <1>2 DEF UpToDate, Origin, PublishQueued, Reading, Representable
  <1> QED
    BY <1>3, <1>4, <1>5, <1>6

LEMMA StoreKeeps == IInv /\ MainStore => IInv'
  <1> SUFFICES ASSUME IInv, MainStore PROVE IInv'
    OBVIOUS
  <1> USE DEF IInv, MainStore, mainVars, queueVars
  <1>1. TypeOK'
    BY DEF TypeOK
  <1>2. Recorded' /\ NotAhead' /\ MainRaises'
    BY DEF Recorded, NotAhead, MainRaises, TypeOK, Representable, Reading
  <1>3. UpToDate' /\ Origin'
    BY DEF UpToDate, Origin, Recorded
  <1> QED
    BY <1>1, <1>2, <1>3

LEMMA ScheduleKeeps == IInv /\ MainSchedule => IInv'
  <1> SUFFICES ASSUME IInv, MainSchedule PROVE IInv'
    OBVIOUS
  <1> USE DEF IInv
  <1>1. PICK entry \in {"write", "report"} : Schedule(entry)
    BY DEF MainSchedule
  <1>2. /\ queue' \in Seq(Entry) /\ Len(queue') <= QueueCap
        /\ lost' \in BOOLEAN /\ (PublishQueued' \/ lost')
    BY <1>1, Scheduling DEF TypeOK, Entry
  <1>3. /\ UNCHANGED <<acc, last_published_total, gate, report, tick_total, pending_total,
                       writer, others, attr_total>>
        /\ main = "schedule" /\ main' = "sleep"
        /\ tick' = IF tick = "off" THEN "idle" ELSE tick
    BY DEF MainSchedule, mainVars, shadow
  <1>4. TypeOK'
    BY <1>2, <1>3 DEF TypeOK, Entry
  <1>5. Recorded' /\ NotAhead' /\ MainRaises'
    BY <1>3 DEF Recorded, NotAhead, MainRaises, Representable, Reading
  <1>6. UpToDate' /\ Origin'
    BY <1>2, <1>3 DEF UpToDate, Origin
  <1> QED
    BY <1>4, <1>5, <1>6

LEMMA TickKeeps == IInv /\ TickStep => IInv'
  <1> SUFFICES ASSUME IInv, TickStep PROVE IInv'
    OBVIOUS
  <1> USE DEF IInv
  <1>1. CASE TickStart
    <2>1. /\ UNCHANGED <<main, acc, last_published_total, gate, report, pending_total,
                         writer, queue, others, lost, attr_total>>
          /\ tick = "idle" /\ tick' = "adc" /\ tick_total' = acc
      BY <1>1 DEF TickStart, mainVars, shadow, queueVars
    <2>2. TypeOK'
      BY <2>1 DEF TypeOK
    <2>3. Recorded' /\ NotAhead' /\ MainRaises'
      BY <2>1 DEF Recorded, NotAhead, MainRaises, TypeOK, Representable, Reading
    <2>4. UpToDate' /\ Origin'
      BY <2>1 DEF UpToDate, Origin, PublishQueued, Representable, Reading
    <2> QED
      BY <2>2, <2>3, <2>4
  <1>2. CASE TickPublish
    <2>1. /\ queue' \in Seq(Entry) /\ Len(queue') <= QueueCap
          /\ lost' \in BOOLEAN /\ (PublishQueued' \/ lost')
      BY <1>2, Scheduling DEF TickPublish, TypeOK, Entry
    <2>2. /\ UNCHANGED <<main, acc, last_published_total, gate, report, tick_total, others,
                         attr_total>>
          /\ tick' = "idle" /\ pending_total' = tick_total /\ writer' = "tick"
      BY <1>2 DEF TickPublish, mainVars
    <2>3. TypeOK'
      BY <2>1, <2>2 DEF TypeOK, Entry
    <2>4. Recorded' /\ NotAhead' /\ MainRaises'
      BY <2>2 DEF Recorded, NotAhead, MainRaises, Representable, Reading
    <2>5. UpToDate' /\ Origin'
      BY <2>1, <2>2 DEF UpToDate, Origin
    <2> QED
      BY <2>3, <2>4, <2>5
  <1> QED
    BY <1>1, <1>2 DEF TickStep

\* A callback brings the attribute up to date with the shadow.
LEMMA CallbackKeeps == IInv /\ (WriteSummation \/ WriteAndReport) => IInv'
  <1> SUFFICES ASSUME IInv, WriteSummation \/ WriteAndReport PROVE IInv'
    OBVIOUS
  <1> USE DEF IInv
  <1>1. /\ UNCHANGED <<main, tick, acc, last_published_total, gate, report, others, lost,
                       tick_total, pending_total, writer>>
        /\ queue # <<>> /\ queue' = Tail(queue)
        /\ attr_total' = ScaleToU48(pending_total)
    BY DEF WriteSummation, WriteAndReport, mainVars, shadow
  <1>2. queue' \in Seq(Entry) /\ Len(queue') <= QueueCap
    BY <1>1, Popping DEF TypeOK, Entry
  <1>3. pending_total \in Nat /\ acc \in Nat
    BY DEF TypeOK
  <1>4. /\ attr_total' \in Words
        /\ Reading(attr_total') = Representable(pending_total)
        /\ Representable(pending_total) \in Nat
    BY <1>1, <1>3, ScaleReads
  <1>5. TypeOK'
    BY <1>1, <1>2, <1>4 DEF TypeOK, Entry
  <1>6. Recorded' /\ Origin'
    BY <1>1 DEF Recorded, Origin
  <1>7. NotAhead'
    <2>1. Representable(pending_total) <= Representable(acc)
      BY <1>3, RepresentableMonotone DEF NotAhead
    <2> QED
      BY <1>1, <1>4, <2>1 DEF NotAhead, Representable
  <1>8. MainRaises' /\ UpToDate'
    <2>1. Representable(pending_total)' = Representable(pending_total)
      BY <1>1 DEF Representable
    <2>2. Reading(attr_total)' = Reading(attr_total')
      BY DEF Reading
    <2> QED
      BY <1>4, <2>1, <2>2 DEF MainRaises, UpToDate
  <1> QED
    BY <1>5, <1>6, <1>7, <1>8

\* What the button's thread schedules and ZBOSS runs leaves the total alone.
LEMMA OtherKeeps == IInv /\ (RunOther \/ OtherSchedules) => IInv'
  <1> SUFFICES ASSUME IInv, RunOther \/ OtherSchedules PROVE IInv'
    OBVIOUS
  <1> USE DEF IInv
  <1>1. /\ UNCHANGED <<main, tick, acc, last_published_total, gate, report, lost,
                       tick_total, pending_total, writer, attr_total>>
        /\ others' \in 0..MaxOthers
    BY PublishAssumption DEF RunOther, OtherSchedules, mainVars, shadow, TypeOK
  <1>2. /\ queue' \in Seq(Entry) /\ Len(queue') <= QueueCap
        /\ PublishQueued => PublishQueued'
    BY Popping, OthersQueued DEF RunOther, OtherSchedules, TypeOK, Entry
  <1>3. TypeOK'
    BY <1>1, <1>2 DEF TypeOK, Entry
  <1>4. Recorded' /\ NotAhead' /\ MainRaises'
    BY <1>1 DEF Recorded, NotAhead, MainRaises, Representable, Reading
  <1>5. UpToDate' /\ Origin'
    BY <1>1, <1>2 DEF UpToDate, Origin, Representable, Reading
  <1> QED
    BY <1>3, <1>4, <1>5

LEMMA NextIInv == IInv /\ [Next]_vars => IInv'
  <1> SUFFICES ASSUME IInv, [Next]_vars PROVE IInv'
    OBVIOUS
  <1>1. CASE UNCHANGED vars
    BY <1>1 DEF vars, mainVars, shadow, queueVars, IInv, TypeOK, Recorded, NotAhead,
                MainRaises, UpToDate, Origin, PublishQueued, Representable, Reading
  <1>2. CASE Next
    BY <1>1, <1>2, MovesKeep, UpdateKeeps, StoreKeeps, ScheduleKeeps, TickKeeps,
       CallbackKeeps, OtherKeeps
    DEF Next, MainStep, ZbossStep, SleepForever
  <1> QED
    BY <1>1, <1>2

LEMMA Invariance == Spec => []IInv
  BY InitIInv, NextIInv, PTL DEF Spec
-----------------------------------------------------------------------------
\* The shadow, the queue and the attribute's two words stay in their ranges.
THEOREM TypeCorrect == Spec => []TypeOK
  <1>1. IInv => TypeOK
    BY DEF IInv
  <1> QED
    BY <1>1, Invariance, PTL

\* A refused callback loses no update while another publish is queued, for a
\* queue of any length.
THEOREM UpdatesKept == Spec => []NoLostUpdate
  <1>1. IInv => NoLostUpdate
    BY DEF IInv, UpToDate, NoLostUpdate
  <1> QED
    BY <1>1, Invariance, PTL

\* Two writers without a lock leave one of two totals in the shadow.
THEOREM TwoOrigins == Spec => []ShadowOrigin
  <1>1. IInv => ShadowOrigin
    BY DEF IInv, Origin, ShadowOrigin
  <1> QED
    BY <1>1, Invariance, PTL

\* metering_scale.h:34-38: the attribute falls only by the tick's doing, neither
\* by a publish of main() nor by a carry into the high word or its saturation.
THEOREM FallsByTick == Spec => FallsOnlyByTick
  <1>1. IInv /\ [Next]_vars =>
          [Reading(attr_total') < Reading(attr_total) => writer = "tick"]_vars
    <2> SUFFICES ASSUME IInv, Next, writer = "main"
                 PROVE  ~(Reading(attr_total') < Reading(attr_total))
      BY DEF IInv, TypeOK
    <2>1. Reading(attr_total) \in Int
      BY ReadingIsInt DEF IInv, TypeOK
    <2>2. CASE attr_total' = attr_total
      BY <2>1, <2>2
    <2>3. CASE attr_total' = ScaleToU48(pending_total)
      <3>1. /\ Reading(attr_total') = Representable(pending_total)
            /\ Representable(pending_total) \in Nat
        BY <2>3, ScaleReads DEF IInv, TypeOK
      <3> QED
        BY <2>1, <3>1 DEF IInv, MainRaises
    <2> QED
      BY <2>2, <2>3
      DEF Next, MainStep, ArmIrq, Update, MainAdcDone, MainStore, MainSchedule, MainSleep,
          SleepForever, vars, TickStep, TickStart, TickPublish, ZbossStep, WriteSummation,
          WriteAndReport, RunOther, OtherSchedules
  <1> QED
    BY <1>1, Invariance, PTL DEF Spec, FallsOnlyByTick
=============================================================================
