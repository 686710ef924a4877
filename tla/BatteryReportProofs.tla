------------------------ MODULE BatteryReportProofs ------------------------
(***************************************************************************)
(* Proofs about the battery's way into a report, for any readings, any     *)
(* battery range, any callback queue and any number of samples.            *)
(***************************************************************************)
EXTENDS BatteryReport, TLAPS

\* A byte says unknown exactly when its conversion failed.
Tells(half) == half.byte = Unknown <=> half.failed

BytesTell ==
  /\ Tells(voltage) /\ Tells(percentage) /\ Tells(attr.voltage) /\ Tells(attr.percentage)
  /\ ~hand.failed => hand.mv \in Readings

\* No number is ahead of the last conversion.
NotAhead ==
  /\ voltage.n <= sampled /\ percentage.n <= sampled /\ hand.n <= sampled
  /\ attr.voltage.n <= sampled

\* The tick comes at most once into a publish of main(), and has then sampled
\* last.
TickOnce ==
  /\ stalled => tick = "idle"
  /\ Storing => sampled \in {hand.n, hand.n + 1}
  /\ Storing /\ ~stalled => sampled = hand.n

\* main() leaves no byte behind its own sample.
OwnStored ==
  /\ main \in {"percentage", "schedule"} => hand.n <= voltage.n
  /\ main = "schedule" => hand.n <= percentage.n

\* The bytes are at most one conversion behind, and two while main() stores.
Recent ==
  /\ sampled <= voltage.n + 2 /\ sampled <= percentage.n + 2
  /\ ~Storing => sampled <= voltage.n + 1 /\ sampled <= percentage.n + 1

\* Each thread converts at most once within a copy.
Crossed(caller) == IF caller \in crossed THEN 1 ELSE 0
CopyIsShort ==
  /\ ~Copying => crossed = {}
  /\ "main" \in crossed => main # "adc"
  /\ "tick" \in crossed => tick = "idle"
  /\ Copying => sampled <= attr.voltage.n + 2 + Crossed("main") + Crossed("tick")

\* The bytes are as new as f and stay so, whatever main() is about to store.
Served(f) == /\ f <= voltage.n /\ f <= percentage.n
             /\ Storing => f <= hand.n
ServedNext(f) == /\ f <= voltage'.n /\ f <= percentage'.n
                 /\ Storing' => f <= hand'.n

\* A queued report finds the bytes it is owed, and so does the one whose first
\* byte has been copied.
Promised ==
  /\ \A i \in DOMAIN queue : Served(Oldest(queue[i]))
  /\ Copying => Served(Oldest(job)) /\ Oldest(job) <= attr.voltage.n

IInv == /\ TypeOK /\ BytesTell /\ NotAhead /\ TickOnce /\ OwnStored /\ Recent
        /\ CopyIsShort /\ Promised /\ ReportCarriesItsBattery /\ PairNeverFarApart
-----------------------------------------------------------------------------
(***************************************************************************)
(* The conversion to a percentage and to bytes.                            *)
(***************************************************************************)

LEMMA Division ==
  ASSUME NEW t \in Nat, NEW m \in Nat \ {0}
  PROVE  /\ t % m \in 0..(m - 1) /\ t \div m \in Nat
         /\ t = m * (t \div m) + (t % m)
  <1>1. t % m \in 0..(m - 1) /\ t \div m \in Nat
    OBVIOUS
  <1>2. t = m * (t \div m) + (t % m)
    BY Z3
  <1> QED
    BY <1>1, <1>2

\* A quotient below k + 1 is at most k.
LEMMA QuotientBound ==
  ASSUME NEW t \in Nat, NEW m \in Nat \ {0}, NEW k \in Nat, t < m * k + m
  PROVE  t \div m <= k
  <1> DEFINE q == t \div m
  <1>1. q \in Nat /\ t >= m * q
    BY Division
  <1> HIDE DEF q
  <1>2. ASSUME q >= k + 1 PROVE FALSE
    <2>1. m * q >= m * (k + 1)
      BY <1>1, <1>2
    <2>2. m * (k + 1) = m * k + m
      OBVIOUS
    <2> QED
      BY <1>1, <2>1, <2>2
  <1> QED
    BY <1>1, <1>2 DEF q

\* Rounding to the nearest percent does not round past the full battery.
LEMMA PercentIsAPercent ==
  ASSUME NEW mv \in Int, NEW empty \in Int, NEW full \in Int
  PROVE  Percent(mv, empty, full) \in 0..100
  <1>1. CASE full <= empty \/ mv <= empty \/ mv >= full
    BY <1>1 DEF Percent
  <1>2. CASE empty < full /\ empty < mv /\ mv < full
    <2> DEFINE r == full - empty
               x == (mv - empty) * 100 + r \div 2
    <2>1. r \in Nat \ {0} /\ x \in Nat /\ x < r * 100 + r
      BY <1>2
    <2>2. Percent(mv, empty, full) = x \div r
      BY <1>2 DEF Percent
    <2> HIDE DEF r, x
    <2>3. x \div r \in Nat /\ x \div r <= 100
      BY <2>1, Division, QuotientBound
    <2> QED
      BY <2>2, <2>3
  <1> QED
    BY <1>1, <1>2

LEMMA MillivoltsAreNatural ==
  ASSUME NEW mv, mv \in Millivolts
  PROVE  mv \in Nat
  BY DEF Millivolts

\* Neither conversion yields the byte that means unknown.
LEMMA ReadingsAreKnown ==
  ASSUME NEW mv \in Readings
  PROVE  /\ ZclVoltage(mv) \in Byte \ {Unknown}
         /\ ZclPercentage(Percent(mv, EmptyMv, FullMv)) \in Byte \ {Unknown}
  <1>1. mv \in Millivolts /\ EmptyMv \in Millivolts /\ FullMv \in Millivolts
    BY BatteryAssumption
  <1>2. mv \in Nat /\ EmptyMv \in Nat /\ FullMv \in Nat
    BY <1>1, MillivoltsAreNatural
  <1>3. ZclVoltage(mv) \in Byte \ {Unknown}
    BY <1>2 DEF ZclVoltage, Byte, Unknown
  <1>4. Percent(mv, EmptyMv, FullMv) \in 0..100
    <2>1. mv \in Int /\ EmptyMv \in Int /\ FullMv \in Int
      BY <1>2
    <2> QED
      BY <2>1, PercentIsAPercent
  <1> QED
    BY <1>3, <1>4 DEF ZclPercentage, Byte, Unknown

\* The two bytes of a sample tell whether it failed, and bear its number.
LEMMA HalvesTell ==
  ASSUME NEW s, s \in [n : Number, failed : BOOLEAN, mv : Readings \cup {0}],
         ~s.failed => s.mv \in Readings
  PROVE  /\ VoltageOf(s) \in Half /\ PercentageOf(s) \in Half
         /\ VoltageOf(s).n = s.n /\ PercentageOf(s).n = s.n
         /\ Tells(VoltageOf(s)) /\ Tells(PercentageOf(s))
  <1>1. CASE s.failed
    BY <1>1 DEF VoltageOf, PercentageOf, Half, Byte, Unknown, Tells
  <1>2. CASE ~s.failed
    <2>1. /\ ZclVoltage(s.mv) \in Byte \ {Unknown}
          /\ ZclPercentage(Percent(s.mv, EmptyMv, FullMv)) \in Byte \ {Unknown}
      BY <1>2, ReadingsAreKnown
    <2>2. /\ VoltageOf(s) = [n |-> s.n, failed |-> s.failed, byte |-> ZclVoltage(s.mv)]
          /\ PercentageOf(s) = [n |-> s.n, failed |-> s.failed,
               byte |-> ZclPercentage(Percent(s.mv, EmptyMv, FullMv))]
      BY <1>2 DEF VoltageOf, PercentageOf
    <2> QED
      BY <1>2, <2>1, <2>2 DEF Half, Tells
  <1> QED
    BY <1>1, <1>2
-----------------------------------------------------------------------------
(***************************************************************************)
(* The callback queue.                                                     *)
(***************************************************************************)

LEMMA EntryBounds ==
  ASSUME NEW e \in Entry
  PROVE  Oldest(e) \in Int /\ e.own \in Int
  BY BatteryAssumption DEF Entry, Oldest, Number

LEMMA QueuedEntries ==
  ASSUME TypeOK, NEW i \in DOMAIN queue
  PROVE  queue[i] \in Entry /\ Oldest(queue[i]) \in Int
  <1>1. queue \in Seq(Entry)
    BY DEF TypeOK
  <1>2. queue[i] \in Entry
    BY <1>1
  <1> QED
    BY <1>2, EntryBounds

\* A scheduled callback is queued behind the others or refused.
LEMMA Scheduling ==
  ASSUME NEW e \in Entry, Schedule(e), queue \in Seq(Entry), Len(queue) <= QueueCap
  PROVE  /\ queue' \in Seq(Entry) /\ Len(queue') <= QueueCap
         /\ \A i \in DOMAIN queue' : queue'[i] = e \/ (i \in DOMAIN queue /\ queue'[i] = queue[i])
  <1>1. CASE Len(queue) < QueueCap
    <2>1. queue' = Append(queue, e)
      BY <1>1 DEF Schedule
    <2>2. /\ queue' \in Seq(Entry) /\ Len(queue') = Len(queue) + 1
          /\ queue'[Len(queue) + 1] = e
          /\ \A i \in DOMAIN queue' : i # Len(queue) + 1 => /\ i \in DOMAIN queue
                                                            /\ queue'[i] = queue[i]
      BY <2>1
    <2> QED
      BY <1>1, <2>2, BatteryAssumption
  <1>2. CASE ~(Len(queue) < QueueCap)
    BY <1>2 DEF Schedule
  <1> QED
    BY <1>1, <1>2

LEMMA Popping ==
  ASSUME queue # <<>>, queue' = Tail(queue), queue \in Seq(Entry), Len(queue) <= QueueCap
  PROVE  /\ queue' \in Seq(Entry) /\ Len(queue') <= QueueCap
         /\ \A i \in DOMAIN queue' : i + 1 \in DOMAIN queue /\ queue'[i] = queue[i + 1]
         /\ 1 \in DOMAIN queue /\ Head(queue) = queue[1] /\ Head(queue) \in Entry
  <1>1. /\ queue' \in Seq(Entry) /\ Len(queue') = Len(queue) - 1 /\ Len(queue) \in Nat
        /\ Len(queue) >= 1
        /\ \A i \in 1..Len(queue') : queue'[i] = queue[i + 1]
        /\ Head(queue) = queue[1] /\ DOMAIN queue = 1..Len(queue)
        /\ DOMAIN queue' = 1..Len(queue')
    OBVIOUS
  <1> QED
    BY <1>1, BatteryAssumption

\* Every report that is waiting after a step is served after it.
LEMMA PromisesKept ==
  ASSUME \A i \in DOMAIN queue' : ServedNext(Oldest(queue'[i])),
         Copying' => ServedNext(Oldest(job')) /\ Oldest(job') <= attr'.voltage.n
  PROVE  Promised'
  BY DEF Promised, Served, ServedNext, Storing, Copying, Oldest

\* What was promised before it, for the entries that stay.
LEMMA PromisedNumbers ==
  ASSUME TypeOK, Promised
  PROVE  /\ \A i \in DOMAIN queue : Oldest(queue[i]) \in Int /\ Served(Oldest(queue[i]))
         /\ Oldest(job) \in Int
         /\ Copying => Served(Oldest(job)) /\ Oldest(job) <= attr.voltage.n
  BY QueuedEntries, EntryBounds DEF TypeOK, Promised
-----------------------------------------------------------------------------
LEMMA Numbers ==
  ASSUME TypeOK
  PROVE  /\ voltage.n \in Nat /\ percentage.n \in Nat /\ hand.n \in Nat
         /\ attr.voltage.n \in Nat /\ attr.percentage.n \in Nat
         /\ sampled \in Nat /\ MaxSamples \in Nat
  BY BatteryAssumption DEF TypeOK, Half, Number

LEMMA InitIInv == Init => IInv
  <1> SUFFICES ASSUME Init PROVE IInv
    OBVIOUS
  <1> USE BatteryAssumption DEF Init, Number
  <1>1. voltage \in Half /\ percentage \in Half /\ voltage.n = 0 /\ percentage.n = 0
        /\ Tells(voltage) /\ Tells(percentage)
    BY DEF NoSample, Half, Byte, Unknown, Tells
  <1>2. /\ attr \in [voltage : Half, percentage : Half]
        /\ attr.voltage = voltage /\ attr.percentage = percentage
    BY <1>1
  <1>3. hand \in [n : Number, failed : BOOLEAN, mv : Readings \cup {0}]
    OBVIOUS
  <1>4. /\ job \in Entry /\ Oldest(job) = 0 /\ ~Copying
        /\ sent \in [voltage : Number, percentage : Number, own : Number,
                     late : BOOLEAN]
        /\ Oldest(sent) = 0 /\ sent.voltage = 0 /\ sent.percentage = 0
    BY <1>1, <1>2 DEF Other, Frame, Entry, Oldest, Copying
  <1>5. TypeOK
    <2>1. /\ queue \in Seq(Entry) /\ Len(queue) <= QueueCap
          /\ sampled \in Number
      OBVIOUS
    <2>2. stalled \in BOOLEAN /\ crossed \subseteq {"main", "tick"}
      OBVIOUS
    <2> QED
      BY <1>1, <1>2, <1>3, <1>4, <2>1, <2>2 DEF TypeOK
  <1>6. BytesTell
    BY <1>1, <1>2 DEF BytesTell
  <1>7. NotAhead /\ TickOnce /\ OwnStored /\ Recent
    BY <1>1, <1>2 DEF NotAhead, TickOnce, OwnStored, Recent, Storing
  <1>8. CopyIsShort /\ Promised
    BY <1>4 DEF CopyIsShort, Promised
  <1>9. ReportCarriesItsBattery /\ PairNeverFarApart
    BY <1>1, <1>2, <1>4 DEF ReportCarriesItsBattery, PairNeverFarApart
  <1> QED
    BY <1>5, <1>6, <1>7, <1>8, <1>9 DEF IInv
-----------------------------------------------------------------------------
(***************************************************************************)
(* main() keeps the invariant.                                             *)
(***************************************************************************)

LEMMA MainRequestsKeeps == IInv /\ MainRequests => IInv'
  <1> SUFFICES ASSUME IInv, MainRequests PROVE IInv'
    OBVIOUS
  <1> USE DEF MainRequests, shadow, ghosts
  <1>1. TypeOK'
    BY DEF IInv, TypeOK
  <1>2. BytesTell' /\ ReportCarriesItsBattery' /\ PairNeverFarApart'
    BY DEF IInv, BytesTell, Tells, ReportCarriesItsBattery, Oldest, PairNeverFarApart,
           Copying
  <1>3. NotAhead' /\ TickOnce' /\ OwnStored' /\ Recent'
    BY DEF IInv, NotAhead, TickOnce, OwnStored, Recent, Storing
  <1>4. CopyIsShort'
    BY DEF IInv, CopyIsShort, Copying, Crossed
  <1>5. Promised'
    BY DEF IInv, Promised, Served, Storing, Copying, Oldest
  <1> QED
    BY <1>1, <1>2, <1>3, <1>4, <1>5 DEF IInv

\* The sample is newer than any other, and the first of main() in this copy.
LEMMA MainAdcDoneKeeps == IInv /\ MainAdcDone => IInv'
  <1> SUFFICES ASSUME IInv, MainAdcDone PROVE IInv'
    OBVIOUS
  <1> USE DEF MainAdcDone, shadow, Converts
  <1>1. /\ voltage.n \in Nat /\ percentage.n \in Nat /\ attr.voltage.n \in Nat
        /\ sampled \in Nat /\ sampled + 1 \in Number
    BY Numbers DEF IInv, Number
  <1>2. /\ hand' \in [n : Number, failed : BOOLEAN, mv : Readings \cup {0}]
        /\ hand'.n = sampled + 1 /\ (~hand'.failed => hand'.mv \in Readings)
    BY <1>1 DEF Sample
  <1>3. TypeOK'
    BY <1>1, <1>2 DEF IInv, TypeOK
  <1>4. BytesTell' /\ ReportCarriesItsBattery' /\ PairNeverFarApart'
    BY <1>2 DEF IInv, BytesTell, Tells, ReportCarriesItsBattery, Oldest, PairNeverFarApart,
                Copying
  <1>5. NotAhead'
    BY <1>1, <1>2 DEF IInv, NotAhead
  <1>6. TickOnce' /\ OwnStored' /\ Recent'
    BY <1>1, <1>2 DEF IInv, TickOnce, OwnStored, Recent, Storing
  <1>7. CopyIsShort'
    BY <1>1 DEF IInv, CopyIsShort, Copying, Crossed
  <1>8. Promised'
    <2>1. \A f \in Int : Served(f) => ServedNext(f)
      BY <1>1, <1>2 DEF IInv, NotAhead, Served, ServedNext, Storing
    <2> QED
      BY <2>1, PromisedNumbers, PromisesKept DEF IInv, Copying
  <1> QED
    BY <1>3, <1>4, <1>5, <1>6, <1>7, <1>8 DEF IInv

\* What main() holds is as new as any report asks for.
LEMMA MainStoresVoltageKeeps == IInv /\ MainStoresVoltage => IInv'
  <1> SUFFICES ASSUME IInv, MainStoresVoltage PROVE IInv'
    OBVIOUS
  <1> USE DEF MainStoresVoltage, ghosts
  <1>1. /\ voltage.n \in Nat /\ percentage.n \in Nat /\ hand.n \in Nat /\ sampled \in Nat
    BY Numbers DEF IInv
  <1>2. voltage' \in Half /\ voltage'.n = hand.n /\ Tells(voltage')
    <2>1. hand \in [n : Number, failed : BOOLEAN, mv : Readings \cup {0}]
      BY DEF IInv, TypeOK
    <2> QED
      BY <2>1, HalvesTell DEF IInv, BytesTell
  <1>3. TypeOK'
    BY <1>2 DEF IInv, TypeOK
  <1>4. BytesTell' /\ ReportCarriesItsBattery' /\ PairNeverFarApart'
    BY <1>2 DEF IInv, BytesTell, Tells, ReportCarriesItsBattery, Oldest, PairNeverFarApart,
                Copying
  <1>5. NotAhead' /\ TickOnce' /\ OwnStored' /\ Recent'
    BY <1>1, <1>2 DEF IInv, NotAhead, TickOnce, OwnStored, Recent, Storing
  <1>6. CopyIsShort'
    BY DEF IInv, CopyIsShort, Copying, Crossed
  <1>7. Promised'
    <2>1. \A f \in Int : Served(f) => ServedNext(f)
      BY <1>2 DEF Served, ServedNext, Storing
    <2> QED
      BY <2>1, PromisedNumbers, PromisesKept DEF IInv, Copying
  <1> QED
    BY <1>3, <1>4, <1>5, <1>6, <1>7 DEF IInv

LEMMA MainStoresPercentageKeeps == IInv /\ MainStoresPercentage => IInv'
  <1> SUFFICES ASSUME IInv, MainStoresPercentage PROVE IInv'
    OBVIOUS
  <1> USE DEF MainStoresPercentage, ghosts
  <1>1. /\ voltage.n \in Nat /\ percentage.n \in Nat /\ hand.n \in Nat /\ sampled \in Nat
    BY Numbers DEF IInv
  <1>2. percentage' \in Half /\ percentage'.n = hand.n /\ Tells(percentage')
    <2>1. hand \in [n : Number, failed : BOOLEAN, mv : Readings \cup {0}]
      BY DEF IInv, TypeOK
    <2> QED
      BY <2>1, HalvesTell DEF IInv, BytesTell
  <1>3. TypeOK'
    BY <1>2 DEF IInv, TypeOK
  <1>4. BytesTell' /\ ReportCarriesItsBattery' /\ PairNeverFarApart'
    BY <1>2 DEF IInv, BytesTell, Tells, ReportCarriesItsBattery, Oldest, PairNeverFarApart,
                Copying
  <1>5. NotAhead' /\ TickOnce' /\ OwnStored' /\ Recent'
    BY <1>1, <1>2 DEF IInv, NotAhead, TickOnce, OwnStored, Recent, Storing
  <1>6. CopyIsShort'
    BY DEF IInv, CopyIsShort, Copying, Crossed
  <1>7. Promised'
    <2>1. \A f \in Int : Served(f) => ServedNext(f)
      BY <1>2 DEF Served, ServedNext, Storing
    <2> QED
      BY <2>1, PromisedNumbers, PromisesKept DEF IInv, Copying
  <1> QED
    BY <1>3, <1>4, <1>5, <1>6, <1>7 DEF IInv

\* main()'s own sample has reached both bytes.
LEMMA MainSchedulesKeeps == IInv /\ MainSchedules => IInv'
  <1> SUFFICES ASSUME IInv, MainSchedules PROVE IInv'
    OBVIOUS
  <1> USE DEF MainSchedules, shadow
  <1> DEFINE mine == Report(hand.n, FALSE)
  <1>1. mine \in Entry /\ Oldest(mine) = hand.n
    BY DEF IInv, TypeOK, Report, Entry, Oldest
  <1>2. queue \in Seq(Entry) /\ Len(queue) <= QueueCap
    BY DEF IInv, TypeOK
  <1>3. /\ queue' \in Seq(Entry) /\ Len(queue') <= QueueCap
        /\ \A i \in DOMAIN queue' : \/ queue'[i] = mine
                                    \/ i \in DOMAIN queue /\ queue'[i] = queue[i]
    BY <1>1, <1>2, Scheduling
  <1> HIDE DEF mine
  <1>4. TypeOK'
    <2>1. stalled' \in BOOLEAN
      OBVIOUS
    <2> QED
      BY <1>3, <2>1 DEF IInv, TypeOK
  <1>5. BytesTell' /\ ReportCarriesItsBattery' /\ PairNeverFarApart'
    BY DEF IInv, BytesTell, Tells, ReportCarriesItsBattery, Oldest, PairNeverFarApart,
           Copying
  <1>6. NotAhead' /\ TickOnce' /\ OwnStored' /\ Recent'
    BY DEF IInv, NotAhead, TickOnce, OwnStored, Recent, Storing
  <1>7. CopyIsShort'
    BY DEF IInv, CopyIsShort, Copying, Crossed
  <1>8. Promised'
    <2>1. \A f \in Int : Served(f) => ServedNext(f)
      BY DEF Served, ServedNext, Storing
    <2>2. ServedNext(Oldest(mine))
      BY <1>1 DEF IInv, OwnStored, ServedNext, Storing
    <2>3. \A i \in DOMAIN queue' : ServedNext(Oldest(queue'[i]))
      BY <1>3, <2>1, <2>2, PromisedNumbers DEF IInv
    <2> QED
      BY <2>1, <2>3, PromisedNumbers, PromisesKept DEF IInv, Copying
  <1> QED
    BY <1>4, <1>5, <1>6, <1>7, <1>8 DEF IInv
-----------------------------------------------------------------------------
(***************************************************************************)
(* The tick keeps the invariant.                                           *)
(***************************************************************************)

LEMMA TickRequestsKeeps == IInv /\ TickRequests => IInv'
  <1> SUFFICES ASSUME IInv, TickRequests PROVE IInv'
    OBVIOUS
  <1> USE DEF TickRequests, shadow, ghosts
  <1>1. TypeOK'
    BY DEF IInv, TypeOK
  <1>2. BytesTell' /\ ReportCarriesItsBattery' /\ PairNeverFarApart'
    BY DEF IInv, BytesTell, Tells, ReportCarriesItsBattery, Oldest, PairNeverFarApart,
           Copying
  <1>3. NotAhead' /\ TickOnce' /\ OwnStored' /\ Recent'
    BY DEF IInv, NotAhead, TickOnce, OwnStored, Recent, Storing
  <1>4. CopyIsShort'
    BY DEF IInv, CopyIsShort, Copying, Crossed
  <1>5. Promised'
    BY DEF IInv, Promised, Served, Storing, Copying, Oldest
  <1> QED
    BY <1>1, <1>2, <1>3, <1>4, <1>5 DEF IInv

\* No other tick came between: what main() may hold is the conversion before.
LEMMA TickPublishesKeeps == IInv /\ TickPublishes => IInv'
  <1> SUFFICES ASSUME IInv, TickPublishes PROVE IInv'
    OBVIOUS
  <1> USE DEF TickPublishes, Converts
  <1> DEFINE mine == Report(sampled + 1, Storing)
  <1>1. /\ voltage.n \in Nat /\ percentage.n \in Nat /\ attr.voltage.n \in Nat
        /\ hand.n \in Nat /\ sampled \in Nat /\ sampled + 1 \in Number
    BY Numbers DEF IInv, Number
  <1>2. PICK s \in Sample : voltage' = VoltageOf(s) /\ percentage' = PercentageOf(s)
    OBVIOUS
  <1>3. /\ s \in [n : Number, failed : BOOLEAN, mv : Readings \cup {0}]
        /\ s.n = sampled + 1 /\ (~s.failed => s.mv \in Readings)
    BY <1>1 DEF Sample
  <1>4. /\ voltage' \in Half /\ percentage' \in Half
        /\ voltage'.n = sampled + 1 /\ percentage'.n = sampled + 1
        /\ Tells(voltage') /\ Tells(percentage')
    BY <1>2, <1>3, HalvesTell
  <1>5. Storing => sampled = hand.n
    BY DEF IInv, TickOnce
  <1>6. /\ mine \in Entry /\ Oldest(mine) <= sampled + 1
        /\ Storing => Oldest(mine) = sampled
    <2>1. Storing \in BOOLEAN
      BY DEF Storing
    <2>2. /\ mine \in Entry /\ mine.own = sampled + 1 /\ mine.late = Storing
      BY <1>1, <2>1 DEF IInv, TypeOK, Report, Entry
    <2> HIDE DEF mine
    <2> QED
      BY <1>1, <2>1, <2>2 DEF Oldest
  <1>7. queue \in Seq(Entry) /\ Len(queue) <= QueueCap
    BY DEF IInv, TypeOK
  <1>8. /\ queue' \in Seq(Entry) /\ Len(queue') <= QueueCap
        /\ \A i \in DOMAIN queue' : \/ queue'[i] = mine
                                    \/ i \in DOMAIN queue /\ queue'[i] = queue[i]
    BY <1>6, <1>7, Scheduling
  <1> HIDE DEF mine
  <1>9. TypeOK'
    <2>1. stalled' \in BOOLEAN
      OBVIOUS
    <2> QED
      BY <1>1, <1>4, <1>8, <2>1 DEF IInv, TypeOK
  <1>10. BytesTell' /\ ReportCarriesItsBattery' /\ PairNeverFarApart'
    BY <1>4 DEF IInv, BytesTell, Tells, ReportCarriesItsBattery, Oldest, PairNeverFarApart,
                Copying
  <1>11. NotAhead' /\ OwnStored' /\ Recent'
    BY <1>1, <1>4 DEF IInv, NotAhead, OwnStored, Recent, Storing
  <1>12. TickOnce'
    <2>1. Storing => stalled'
      BY DEF Storing
    <2>2. Storing => sampled' \in {hand.n, hand.n + 1}
      BY <1>1, <1>5
    <2> QED
      BY <2>1, <2>2 DEF TickOnce, Storing
  <1>13. CopyIsShort'
    BY <1>1 DEF IInv, CopyIsShort, Copying, Crossed
  <1>14. Promised'
    <2>1. \A f \in Int : Served(f) => ServedNext(f)
      BY <1>1, <1>4 DEF IInv, NotAhead, Served, ServedNext, Storing
    <2>2. ServedNext(Oldest(mine))
      BY <1>1, <1>4, <1>5, <1>6 DEF ServedNext, Storing
    <2>3. \A i \in DOMAIN queue' : ServedNext(Oldest(queue'[i]))
      BY <1>8, <2>1, <2>2, PromisedNumbers DEF IInv
    <2> QED
      BY <2>1, <2>3, PromisedNumbers, PromisesKept DEF IInv, Copying
  <1> QED
    BY <1>9, <1>10, <1>11, <1>12, <1>13, <1>14 DEF IInv
-----------------------------------------------------------------------------
(***************************************************************************)
(* The ZBOSS thread keeps the invariant.                                   *)
(***************************************************************************)

\* A report leaves the queue with the voltage it was promised.
LEMMA CopiesVoltageKeeps == IInv /\ CopiesVoltage => IInv'
  <1> SUFFICES ASSUME IInv, CopiesVoltage PROVE IInv'
    OBVIOUS
  <1> USE DEF CopiesVoltage, shadow, ghosts
  <1>1. /\ voltage \in Half /\ voltage.n \in Nat /\ sampled \in Nat
        /\ attr \in [voltage : Half, percentage : Half]
        /\ queue \in Seq(Entry) /\ Len(queue) <= QueueCap
    BY Numbers DEF IInv, TypeOK
  <1>2. /\ queue' \in Seq(Entry) /\ Len(queue') <= QueueCap
        /\ \A i \in DOMAIN queue' : i + 1 \in DOMAIN queue /\ queue'[i] = queue[i + 1]
        /\ 1 \in DOMAIN queue /\ job' = queue[1] /\ job' \in Entry
    BY <1>1, Popping
  <1>3. /\ attr' \in [voltage : Half, percentage : Half]
        /\ attr'.voltage = voltage /\ attr'.percentage = attr.percentage
    BY <1>1
  <1>4. Copying'
    BY <1>1 DEF Copying
  <1>5. TypeOK'
    BY <1>2, <1>3 DEF IInv, TypeOK
  <1>6. BytesTell' /\ ReportCarriesItsBattery' /\ PairNeverFarApart'
    BY <1>3, <1>4 DEF IInv, BytesTell, Tells, ReportCarriesItsBattery, Oldest,
                      PairNeverFarApart
  <1>7. NotAhead' /\ TickOnce' /\ OwnStored' /\ Recent'
    BY <1>3 DEF IInv, NotAhead, TickOnce, OwnStored, Recent, Storing
  <1>8. CopyIsShort'
    BY <1>1, <1>3, <1>4 DEF IInv, CopyIsShort, Recent, Crossed
  <1>9. Promised'
    <2>1. \A f \in Int : Served(f) => ServedNext(f) /\ f <= attr'.voltage.n
      BY <1>3 DEF Served, ServedNext, Storing
    <2>2. /\ \A i \in DOMAIN queue' : ServedNext(Oldest(queue'[i]))
          /\ ServedNext(Oldest(job')) /\ Oldest(job') <= attr'.voltage.n
      BY <1>2, <2>1, PromisedNumbers DEF IInv
    <2> QED
      BY <2>2, PromisesKept
  <1> QED
    BY <1>5, <1>6, <1>7, <1>8, <1>9 DEF IInv

\* By then each writer has converted once more at most.
LEMMA CopiesPercentageAndReportsKeeps == IInv /\ CopiesPercentageAndReports => IInv'
  <1> SUFFICES ASSUME IInv, CopiesPercentageAndReports PROVE IInv'
    OBVIOUS
  <1> USE DEF CopiesPercentageAndReports, shadow
  <1>1. /\ percentage \in Half /\ percentage.n \in Nat /\ sampled \in Nat
        /\ attr \in [voltage : Half, percentage : Half] /\ attr.voltage.n \in Nat
        /\ attr.voltage.n \in Number /\ percentage.n \in Number
        /\ job \in Entry /\ Oldest(job) \in Int
    BY Numbers, EntryBounds DEF IInv, TypeOK, Half
  <1>2. /\ attr' \in [voltage : Half, percentage : Half]
        /\ attr'.voltage = attr.voltage /\ attr'.percentage = percentage
    BY <1>1
  <1>3. ~Copying' /\ job' \in Entry
    BY BatteryAssumption DEF Copying, Other, Entry, Number
  <1>4. Oldest(job) <= attr.voltage.n /\ Oldest(job) <= percentage.n
    BY DEF IInv, Promised, Served
  <1>5. /\ sent' \in [voltage : Number, percentage : Number, own : Number,
                      late : BOOLEAN]
        /\ ReportCarriesItsBattery'
    <2>1. CASE sent' = Frame(attr', job)
      <3>1. /\ sent' \in [voltage : Number, percentage : Number,
                          own : Number, late : BOOLEAN]
            /\ sent'.voltage = attr.voltage.n /\ sent'.percentage = percentage.n
            /\ sent'.own = job.own /\ sent'.late = job.late
        BY <1>1, <1>2, <2>1 DEF Frame, Entry
      <3> QED
        BY <1>4, <3>1 DEF ReportCarriesItsBattery, Oldest
    <2>2. CASE UNCHANGED sent
      BY <2>2 DEF IInv, TypeOK, ReportCarriesItsBattery, Oldest
    <2> QED
      BY <2>1, <2>2
  <1>6. TypeOK'
    BY <1>2, <1>3, <1>5 DEF IInv, TypeOK
  <1>7. BytesTell'
    BY <1>2 DEF IInv, BytesTell, Tells
  <1>8. NotAhead' /\ TickOnce' /\ OwnStored' /\ Recent'
    BY <1>2 DEF IInv, NotAhead, TickOnce, OwnStored, Recent, Storing
  <1>9. CopyIsShort'
    BY <1>3 DEF IInv, CopyIsShort
  <1>10. PairNeverFarApart'
    <2>1. /\ percentage.n <= sampled /\ sampled <= attr.voltage.n + 4
          /\ attr.voltage.n <= sampled /\ sampled <= percentage.n + 2
      BY <1>1 DEF IInv, NotAhead, Recent, CopyIsShort, Crossed
    <2> QED
      BY <1>1, <1>2, <2>1 DEF PairNeverFarApart
  <1>11. Promised'
    <2>1. \A i \in DOMAIN queue : Served(Oldest(queue[i]))'
      BY DEF IInv, Promised, Served, Storing, Oldest
    <2> QED
      BY <1>3, <2>1 DEF Promised, Oldest
  <1> QED
    BY <1>5, <1>6, <1>7, <1>8, <1>9, <1>10, <1>11 DEF IInv

LEMMA RunOtherKeeps == IInv /\ RunOther => IInv'
  <1> SUFFICES ASSUME IInv, RunOther PROVE IInv'
    OBVIOUS
  <1> USE DEF RunOther, shadow, ghosts
  <1>1. queue \in Seq(Entry) /\ Len(queue) <= QueueCap
    BY DEF IInv, TypeOK
  <1>2. /\ queue' \in Seq(Entry) /\ Len(queue') <= QueueCap
        /\ \A i \in DOMAIN queue' : i + 1 \in DOMAIN queue /\ queue'[i] = queue[i + 1]
    BY <1>1, Popping
  <1>3. TypeOK'
    BY <1>2 DEF IInv, TypeOK
  <1>4. /\ BytesTell' /\ ReportCarriesItsBattery' /\ PairNeverFarApart'
        /\ NotAhead' /\ TickOnce' /\ OwnStored' /\ Recent' /\ CopyIsShort'
    BY DEF IInv, BytesTell, Tells, ReportCarriesItsBattery, Oldest, PairNeverFarApart,
           NotAhead, TickOnce, OwnStored, Recent, Storing, CopyIsShort, Copying, Crossed
  <1>5. Promised'
    BY <1>2 DEF IInv, Promised, Served, Storing, Copying, Oldest
  <1> QED
    BY <1>3, <1>4, <1>5 DEF IInv

LEMMA OtherSchedulesKeeps == IInv /\ OtherSchedules => IInv'
  <1> SUFFICES ASSUME IInv, OtherSchedules PROVE IInv'
    OBVIOUS
  <1> USE DEF OtherSchedules, shadow, ghosts
  <1>1. Other \in Entry /\ Oldest(Other) = 0
    BY BatteryAssumption DEF Entry, Other, Oldest, Number
  <1>2. queue \in Seq(Entry) /\ Len(queue) <= QueueCap
    BY DEF IInv, TypeOK
  <1>3. /\ queue' \in Seq(Entry) /\ Len(queue') <= QueueCap
        /\ \A i \in DOMAIN queue' : \/ queue'[i] = Other
                                    \/ i \in DOMAIN queue /\ queue'[i] = queue[i]
    BY <1>1, <1>2, Scheduling
  <1>4. TypeOK'
    BY <1>3 DEF IInv, TypeOK
  <1>5. /\ BytesTell' /\ ReportCarriesItsBattery' /\ PairNeverFarApart'
        /\ NotAhead' /\ TickOnce' /\ OwnStored' /\ Recent' /\ CopyIsShort'
    BY DEF IInv, BytesTell, Tells, ReportCarriesItsBattery, Oldest, PairNeverFarApart,
           NotAhead, TickOnce, OwnStored, Recent, Storing, CopyIsShort, Copying, Crossed
  <1>6. Served(Oldest(Other))
    BY <1>1, Numbers DEF IInv, Served
  <1>7. Promised'
    <2>1. \A f \in Int : Served(f) => ServedNext(f)
      BY DEF Served, ServedNext, Storing
    <2>2. \A i \in DOMAIN queue' : ServedNext(Oldest(queue'[i]))
      BY <1>1, <1>3, <1>6, <2>1, PromisedNumbers DEF IInv
    <2> QED
      BY <2>1, <2>2, PromisedNumbers, PromisesKept DEF IInv, Copying
  <1> QED
    BY <1>4, <1>5, <1>7 DEF IInv
-----------------------------------------------------------------------------
LEMMA NextIInv == IInv /\ [Next]_vars => IInv'
  <1> SUFFICES ASSUME IInv, [Next]_vars PROVE IInv'
    OBVIOUS
  <1>1. CASE MainStep
    BY <1>1, MainRequestsKeeps, MainAdcDoneKeeps, MainStoresVoltageKeeps,
       MainStoresPercentageKeeps, MainSchedulesKeeps DEF MainStep
  <1>2. CASE TickStep
    BY <1>2, TickRequestsKeeps, TickPublishesKeeps DEF TickStep
  <1>3. CASE ZbossStep
    BY <1>3, CopiesVoltageKeeps, CopiesPercentageAndReportsKeeps, RunOtherKeeps
       DEF ZbossStep
  <1>4. CASE OtherSchedules
    BY <1>4, OtherSchedulesKeeps
  <1>5. CASE UNCHANGED vars
    <2> USE <1>5 DEF vars, shadow, ghosts
    <2>1. TypeOK' /\ BytesTell'
      BY DEF IInv, TypeOK, BytesTell, Tells
    <2>2. /\ ReportCarriesItsBattery' /\ PairNeverFarApart' /\ CopyIsShort'
          /\ NotAhead' /\ TickOnce' /\ OwnStored' /\ Recent' /\ Promised'
      BY DEF IInv, ReportCarriesItsBattery, Oldest, PairNeverFarApart, NotAhead, TickOnce,
             OwnStored, Recent, Storing, CopyIsShort, Copying, Crossed, Promised, Served
    <2> QED
      BY <2>1, <2>2 DEF IInv
  <1> QED
    BY <1>1, <1>2, <1>3, <1>4, <1>5 DEF Next

LEMMA Invariance == Spec => []IInv
  BY InitIInv, NextIInv, PTL DEF Spec

\* The shadow bytes, the attributes and the queued requests keep their types
\* (zigbee_app.c: uint8_t shadows; ZB_SCHEDULE_APP_CALLBACK).
THEOREM TypeCorrect == Spec => []TypeOK
  <1>1. IInv => TypeOK
    BY DEF IInv
  <1> QED
    BY <1>1, Invariance, PTL

\* Neither byte of a report is older than its own conversion, or, where main() had
\* a sample in hand when the tick stored, than that one (zigbee_app.c,
\* battery_sample and battery_write_attributes).
THEOREM FreshBattery == Spec => []ReportCarriesItsBattery
  <1>1. IInv => ReportCarriesItsBattery
    BY DEF IInv
  <1> QED
    BY <1>1, Invariance, PTL

\* The voltage and the percentage that the coordinator reads between two reports
\* come from conversions no more than four apart, two where the percentage is the
\* older one (zigbee_app.c, battery_sample and battery_write_attributes).
THEOREM PairsHold == Spec => []PairNeverFarApart
  <1>1. IInv => PairNeverFarApart
    BY DEF IInv
  <1> QED
    BY <1>1, Invariance, PTL

\* The coordinator reads "unknown" exactly for a conversion that failed, or
\* before the first (battery_level.h:42-45, zigbee_app.c:1220-1223).
THEOREM UnknownIsHonest == Spec => []UnknownMeansFailed
  <1>1. IInv => UnknownMeansFailed
    BY DEF IInv, BytesTell, Tells, UnknownMeansFailed
  <1> QED
    BY <1>1, Invariance, PTL
=============================================================================
