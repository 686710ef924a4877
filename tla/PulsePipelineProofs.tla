------------------------ MODULE PulsePipelineProofs ------------------------
(***************************************************************************)
(* Proofs about the pulse path for every counter width, loss bound and     *)
(* interval: type correctness, conservation of pulses, the loss bound,     *)
(* and that the pipeline implements DurableMeter.                          *)
(***************************************************************************)
EXTENDS PulsePipeline, TLAPS

\* Before the restore the accumulator is what pulse_accumulator_init left,
\* and before hw_pulse_counter_init the counter has not moved either.
Quiescent ==
  /\ pc \notin Restored =>
       /\ total = 0 /\ last_hw = 0 /\ last_saved_total = 0 /\ base = 0
       /\ ~load_failed /\ ~save_failed
  /\ pc \notin Counting => hw = 0 /\ counted = 0

\* A record that does not exist counts as 0, and main()'s idea of what is in
\* flash is right unless it could not read it.
Synced ==
  /\ ~nvs_written => nvs_total = 0
  /\ pc \in Restored /\ initialized /\ ~load_failed =>
       nvs_total = last_saved_total /\ nvs_total <= total

\* last_saved_ms stays backdated up to the first save of the boot, and what that
\* saved, main() knows, even where it could not read what was there before.
Backdated ==
  /\ pc \in Counting => base <= last_saved_total /\ last_saved_total <= total
  /\ pc \in Counting /\ last_saved_total = base => since_save = Interval
  /\ pc \in Restored /\ last_saved_total # 0 => nvs_total = last_saved_total

\* The inductive invariant of the pipeline.
IInv == TypeOK /\ Conservation /\ Quiescent /\ Synced /\ LossBound /\ Backdated

\* The Boolean part of TypeOK.
Flags == /\ initialized \in BOOLEAN /\ nvs_written \in BOOLEAN
         /\ load_failed \in BOOLEAN /\ save_failed \in BOOLEAN

\* Counting one pulse adds one to what is still to be sampled, wrap or no wrap.
LEMMA OneMorePulse ==
  ASSUME NEW now \in 0..(HwMod - 1), NEW last \in 0..(HwMod - 1),
         HwDelta(now, last) < HwMod - 1
  PROVE  LET next == IF now = HwMod - 1 THEN 0 ELSE now + 1
         IN  /\ next \in 0..(HwMod - 1)
             /\ HwDelta(next, last) = HwDelta(now, last) + 1
  BY PipelineAssumption DEF HwDelta

\* What is still to be sampled is a number of pulses, none right after a sample.
LEMMA DeltaRange ==
  ASSUME NEW now \in 0..(HwMod - 1), NEW last \in 0..(HwMod - 1)
  PROVE  /\ HwDelta(now, last) \in 0..(HwMod - 1)
         /\ HwDelta(now, now) = 0
  BY PipelineAssumption DEF HwDelta

LEMMA InitIInv == Init => IInv
<1> SUFFICES ASSUME Init PROVE IInv
  OBVIOUS
<1>1. TypeOK
  <2>1. Flags
    BY Zenon DEF Init, Flags
  <2> QED
    BY <2>1, PipelineAssumption DEF Init, Flags, TypeOK, Locations
<1>2. Conservation /\ LossBound
  BY DEF Init, Conservation, Counting, LossBound
<1>3. Quiescent /\ Synced /\ Backdated
  BY DEF Init, Quiescent, Synced, Backdated, Restored, Counting
<1> QED
  BY <1>1, <1>2, <1>3 DEF IInv

LEMMA NextIInv == IInv /\ [Next]_vars => IInv'
<1> SUFFICES ASSUME IInv, [Next]_vars PROVE IInv'
  OBVIOUS
<1> USE PipelineAssumption DEF IInv, TypeOK, Locations, Counting, Restored,
        Conservation, Quiescent, Synced, LossBound, Backdated, Healthy, Unsampled,
        ram, flash, ghosts
<1>1. CASE Pulse
  <2>1. hw' \in 0..(HwMod - 1) /\ Unsampled' = Unsampled + 1 /\ last_hw' = last_hw
    BY <1>1, OneMorePulse DEF Pulse
  <2>2. Unsampled \in Nat
    BY DeltaRange
  <2>3. TypeOK'
    BY <1>1, <2>1 DEF Pulse
  <2>4. Conservation'
    BY <1>1, <2>1, <2>2 DEF Pulse
  <2>5. LossBound'
    BY <1>1, <2>1, <2>2 DEF Pulse
  <2> QED
    BY <1>1, <2>3, <2>4, <2>5 DEF Pulse
<1>2. CASE Reset
  <2>1. Flags'
    BY <1>2, Zenon DEF Reset, Flags
  <2> QED
    BY <1>2, <2>1 DEF Reset, Flags
<1>3. CASE PowerOn
  BY <1>3 DEF PowerOn
<1>4. CASE NvsInit
  BY <1>4 DEF NvsInit
<1>5. CASE HwInit
  BY <1>5, DeltaRange DEF HwInit, HwDelta
<1>6. CASE EraseCheck
  BY <1>6 DEF EraseCheck
<1>7. CASE Load
  <2>1. Flags'
    BY <1>7, Zenon DEF Load, Flags
  <2> QED
    BY <1>7, <2>1 DEF Load, Flags, HwDelta
<1>8. CASE ArmIrq
  BY <1>8 DEF ArmIrq
<1>9. CASE Sample
  BY <1>9, DeltaRange DEF Sample
<1>10. CASE PersistSkip
  BY <1>10, DeltaRange DEF PersistSkip, ShouldWrite
<1>11. CASE PersistOk
  <2>1. Flags'
    BY <1>11, Zenon DEF PersistOk, Flags
  <2>2. TypeOK' /\ Conservation' /\ Quiescent' /\ Synced' /\ LossBound'
    BY <1>11, <2>1, DeltaRange DEF PersistOk, Flags
  <2>3. Backdated'
    BY <1>11 DEF PersistOk, ShouldWrite
  <2> QED
    BY <2>2, <2>3
<1>12. CASE PersistFail
  BY <1>12 DEF PersistFail
<1>13. CASE Sleep
  BY <1>13 DEF Sleep
<1>14. CASE UNCHANGED vars
  BY <1>14 DEF vars
<1> QED
  BY <1>1, <1>2, <1>3, <1>4, <1>5, <1>6, <1>7, <1>8, <1>9, <1>10, <1>11, <1>12,
     <1>13, <1>14 DEF Next, Main, Loop

LEMMA InvariantIInv == Spec => []IInv
  BY InitIInv, NextIInv, PTL DEF Spec

\* Every variable of the pulse path keeps its C type's range (main.c locals,
\* pulse_accumulator.h, nvs_store.c's flag and record).
THEOREM TypeCorrect == Spec => []TypeOK
<1>1. IInv => TypeOK
  BY DEF IInv
<1> QED
  BY <1>1, InvariantIInv, PTL

\* pulse_accumulator.c neither loses nor repeats a pulse, for any counter width.
THEOREM PulsesConserved == Spec => []Conservation
<1>1. IInv => Conservation
  BY DEF IInv
<1> QED
  BY <1>1, InvariantIInv, PTL

\* main.c's loss bound, for any MaxDelta and Interval.
THEOREM LossBounded == Spec => []LossBound
<1>1. IInv => LossBound
  BY DEF IInv
<1> QED
  BY <1>1, InvariantIInv, PTL

\* Flash never holds more than the total that main() restored and counted.
THEOREM NoPhantom == Spec => []NoPhantomEnergy
<1>1. IInv => NoPhantomEnergy
  BY DEF IInv, Synced, NoPhantomEnergy
<1> QED
  BY <1>1, InvariantIInv, PTL

\* The first change of the total after boot is in flash by the end of its loop
\* (main.c, last_saved_ms), for any MaxDelta and Interval.
THEOREM FirstSaved == Spec => []FirstChangeSaved
<1>1. IInv => FirstChangeSaved
  <2> SUFFICES ASSUME IInv, pc = "sleep", Healthy, total # base PROVE nvs_total > base
    BY DEF FirstChangeSaved
  <2>1. nvs_total = last_saved_total /\ base <= last_saved_total
    BY DEF IInv, Synced, Backdated, Healthy, Restored, Counting
  <2>2. last_saved_total # base
    BY <2>1 DEF IInv, LossBound, Backdated, Counting
  <2> QED
    BY <2>1, <2>2 DEF IInv, TypeOK
<1> QED
  BY <1>1, InvariantIInv, PTL

\* The persisted total only decreases where main() and nvs_store_init mean it to,
\* or in the first save after a load that failed.
THEOREM StoredMonotone == Spec => StoredNeverDecreases
<1>1. IInv /\ [Next]_vars =>
        [\/ nvs_total' >= nvs_total
         \/ nvs_total' = 0 /\ pc \in {"nvs_init", "erase_check"}
         \/ load_failed /\ last_saved_total = 0]_flash
  <2> SUFFICES ASSUME IInv, Next, flash' # flash,
                      ~(nvs_total' = 0 /\ pc \in {"nvs_init", "erase_check"}),
                      ~(load_failed /\ last_saved_total = 0)
               PROVE  nvs_total' >= nvs_total
    BY DEF vars, flash
  <2>1. PersistOk
    BY DEF Next, Main, Loop, Pulse, Reset, PowerOn, NvsInit, HwInit, EraseCheck, Load,
       ArmIrq, Sample, PersistSkip, PersistFail, Sleep, ram, flash, ghosts
  <2>2. nvs_total = last_saved_total
    BY <2>1 DEF PersistOk, IInv, Synced, Backdated, Restored
  <2> QED
    BY <2>1, <2>2 DEF PersistOk, IInv, TypeOK, Backdated, Counting
<1> QED
  BY <1>1, InvariantIInv, PTL DEF Spec, StoredNeverDecreases

\* The pipeline implements the one durable reading it promises: every step of
\* the firmware, of the hardware and of the supply is a step of DurableMeter
\* or changes nothing there.
THEOREM ImplementsMeter == Spec => MeterSpec
<1>1. Init => Meter!Init
  BY DEF Init, Meter!Init, Restored
<1>2. IInv /\ [Next]_vars => [Meter!Next]_(Meter!vars)
  <2> SUFFICES ASSUME IInv, [Next]_vars PROVE [Meter!Next]_(Meter!vars)
    OBVIOUS
  <2> USE DEF IInv, TypeOK, Locations, Restored, Meter!Next, Meter!vars,
          Meter!Resume, Meter!Erase, Meter!Count, Meter!Save, Meter!Stop,
          ram, flash, ghosts
  <2>1. CASE Pulse
    BY <2>1 DEF Pulse
  <2>2. CASE Reset
    BY <2>2 DEF Reset
  <2>3. CASE PowerOn
    BY <2>3 DEF PowerOn
  <2>4. CASE NvsInit
    BY <2>4 DEF NvsInit
  <2>5. CASE HwInit
    BY <2>5 DEF HwInit
  <2>6. CASE EraseCheck
    BY <2>6 DEF EraseCheck, Quiescent
  <2>7. CASE Load
    BY <2>7 DEF Load, Quiescent
  <2>8. CASE ArmIrq
    BY <2>8 DEF ArmIrq
  <2>9. CASE Sample
    BY <2>9, DeltaRange DEF Sample
  <2>10. CASE PersistSkip
    BY <2>10 DEF PersistSkip
  <2>11. CASE PersistOk
    BY <2>11 DEF PersistOk
  <2>12. CASE PersistFail
    BY <2>12 DEF PersistFail
  <2>13. CASE Sleep
    BY <2>13 DEF Sleep
  <2>14. CASE UNCHANGED vars
    BY <2>14 DEF vars
  <2> QED
    BY <2>1, <2>2, <2>3, <2>4, <2>5, <2>6, <2>7, <2>8, <2>9, <2>10, <2>11, <2>12,
       <2>13, <2>14 DEF Next, Main, Loop
<1> QED
  BY <1>1, <1>2, InvariantIInv, PTL DEF Spec, MeterSpec, Meter!Spec
=============================================================================
