--------------------------- MODULE PulsePipeline ---------------------------
(***************************************************************************)
(* The pulse path of the energy meter, from the TIMER2 hardware counter to *)
(* the NVS record: main()'s boot sequence and sample loop (src/main.c),    *)
(* the accumulator (src/pulse_accumulator.c), the persistence policy       *)
(* (src/persist_policy.c) and the store (src/nvs_store.c).                 *)
(*                                                                         *)
(* One action per step of the main thread between which a pulse can arrive *)
(* or the supply can disappear.  Time is counted in sample-loop periods.   *)
(***************************************************************************)
EXTENDS Integers

CONSTANTS
  HwMod,      \* modulus of the hardware counter (2^32 on TIMER2)
  MaxDelta,   \* PERSIST_MAX_PULSE_DELTA, in pulses
  Interval,   \* PERSIST_INTERVAL_MS, in sample-loop periods
  MaxPulses,  \* bound on the pulses of one boot
  MaxBoots    \* bound on the number of boots

ASSUME PipelineAssumption ==
  /\ HwMod \in Nat \ {0, 1}
  /\ MaxDelta \in Nat \ {0}
  /\ Interval \in Nat \ {0}
  /\ MaxPulses \in Nat
  /\ MaxBoots \in Nat

VARIABLES
  pc,               \* where the main thread is
  hw,               \* TIMER2's count
  total,            \* acc.total
  last_hw,          \* acc.last_hw
  last_saved_total,
  since_save,       \* now - last_saved_ms in loop periods, capped at Interval
  initialized,      \* nvs_store's flag: the partition is mounted
  nvs_written,      \* flash: record NVS_ID_ACCUMULATOR_TOTAL exists
  nvs_total,        \* flash: its value (0 while it does not exist)
  boots,            \* boots so far (bounds the behaviour)
  counted,          \* ghost: pulses TIMER2 counted since this boot
  base,             \* ghost: the total this boot restored from flash
  load_failed,      \* ghost: this boot could not read an existing record
  save_failed       \* ghost: the last save of this boot failed

ram    == <<total, last_hw, last_saved_total, since_save>>
flash  == <<nvs_written, nvs_total>>
ghosts == <<base, load_failed, save_failed>>
vars   == <<pc, hw, total, last_hw, last_saved_total, since_save, initialized,
            nvs_written, nvs_total, boots, counted, base, load_failed, save_failed>>

Locations == {"off", "nvs_init", "hw_init", "erase_check", "load", "arm_irq",
              "sample", "persist", "sleep", "fatal_hw", "fatal_irq"}

\* Locations at which hw_pulse_counter_init has started the counter, and
\* those at which the accumulator holds what this boot restored.
Counting == {"erase_check", "load", "arm_irq", "sample", "persist", "sleep", "fatal_irq"}
Restored == {"arm_irq", "sample", "persist", "sleep", "fatal_irq"}
InLoop   == {"sample", "persist", "sleep"}

\* Mutant of HwDelta: forgets the wrap.
PlainDelta(now, last) == now - last

\* pulse_accumulator_update's delta: unsigned subtraction in the counter's width.
HwDelta(now, last) == IF now >= last THEN now - last ELSE now - last + HwMod

\* Mutants of ShouldWrite: the threshold off by one, no wall-clock arm.
WriteAboveDelta(current, saved, elapsed) ==
  /\ current # saved
  /\ \/ current > saved /\ current - saved > MaxDelta
     \/ elapsed >= Interval
WriteOnDeltaOnly(current, saved, elapsed) ==
  current > saved /\ current - saved >= MaxDelta

\* persist_policy_should_write.
ShouldWrite(current, saved, elapsed) ==
  /\ current # saved
  /\ \/ current > saved /\ current - saved >= MaxDelta
     \/ elapsed >= Interval

Unsampled == HwDelta(hw, last_hw)

Init ==
  /\ pc = "off"
  /\ hw = 0 /\ total = 0 /\ last_hw = 0
  /\ last_saved_total = 0 /\ since_save = 0
  /\ initialized = FALSE
  /\ nvs_written = FALSE /\ nvs_total = 0
  /\ boots = 0
  /\ counted = 0 /\ base = 0 /\ load_failed = FALSE /\ save_failed = FALSE
-----------------------------------------------------------------------------
(***************************************************************************)
(* The environment: the meter blinks, the supply fails.                    *)
(***************************************************************************)

\* Mutant of Pulse: the counter is wider than its modulus.
PulseUnwrapped ==
  /\ pc \in Counting /\ counted < MaxPulses
  /\ hw' = hw + 1
  /\ counted' = counted + 1
  /\ UNCHANGED <<pc, ram, initialized, flash, boots, ghosts>>

\* One COUNT task on TIMER2.  The guard on Unsampled is the assumption that
\* fewer than 2^32 pulses arrive between two samples 200 ms apart.
Pulse ==
  /\ pc \in Counting
  /\ counted < MaxPulses
  /\ Unsampled < HwMod - 1
  /\ hw' = IF hw = HwMod - 1 THEN 0 ELSE hw + 1
  /\ counted' = counted + 1
  /\ UNCHANGED <<pc, ram, initialized, flash, boots, ghosts>>

\* Power loss or system reset: RAM and the counter are gone, flash stays.
Reset ==
  /\ pc # "off"
  /\ pc' = "off"
  /\ hw' = 0 /\ total' = 0 /\ last_hw' = 0
  /\ last_saved_total' = 0 /\ since_save' = 0
  /\ initialized' = FALSE
  /\ counted' = 0 /\ base' = 0 /\ load_failed' = FALSE /\ save_failed' = FALSE
  /\ UNCHANGED <<flash, boots>>
-----------------------------------------------------------------------------
(***************************************************************************)
(* Boot.                                                                   *)
(***************************************************************************)

PowerOn ==
  /\ pc = "off"
  /\ boots < MaxBoots
  /\ boots' = boots + 1
  /\ pc' = "nvs_init"
  /\ UNCHANGED <<hw, ram, initialized, flash, counted, ghosts>>

\* nvs_store_init: a mount, and after a failed mount one clear and one retry.
\* A cleared partition stays cleared when the second mount fails too.
NvsInit ==
  /\ pc = "nvs_init"
  /\ pc' = "hw_init"
  /\ \/ initialized' \in BOOLEAN /\ UNCHANGED flash       \* mounted / not cleared
     \/ /\ initialized' \in BOOLEAN                       \* cleared, then retried
        /\ nvs_written' = FALSE /\ nvs_total' = 0
  /\ UNCHANGED <<hw, ram, boots, counted, ghosts>>

\* Mutant of HwInit: last_saved_ms starts at the boot.
HwInitNotBackdated ==
  /\ pc = "hw_init"
  /\ pc' \in {"erase_check", "fatal_hw"}
  /\ since_save' = 0
  /\ UNCHANGED <<hw, total, last_hw, last_saved_total, initialized, flash, boots,
                 counted, ghosts>>

\* hw_pulse_counter_init, then the initialisers of main()'s locals.
\* last_saved_ms is backdated by the whole interval.
HwInit ==
  /\ pc = "hw_init"
  /\ \/ pc' = "erase_check" /\ since_save' = Interval
     \/ pc' = "fatal_hw" /\ UNCHANGED since_save
  /\ UNCHANGED <<hw, total, last_hw, last_saved_total, initialized, flash, boots,
                 counted, ghosts>>

\* The boot-hold gesture; main() skips it and the load without a mount.
\* A failed erase leaves the record alone.
EraseCheck ==
  /\ pc = "erase_check"
  /\ \/ ~initialized /\ pc' = "arm_irq" /\ UNCHANGED flash
     \/ initialized /\ pc' = "load" /\ UNCHANGED flash
     \/ /\ initialized /\ pc' = "load"
        /\ nvs_written' = TRUE /\ nvs_total' = 0
  /\ UNCHANGED <<hw, ram, initialized, boots, counted, ghosts>>

\* Mutant of Load: remembers what is saved but does not restore the total.
LoadWithoutRestore ==
  /\ pc = "load"
  /\ pc' = "arm_irq"
  /\ last_saved_total' = IF nvs_written THEN nvs_total ELSE last_saved_total
  /\ UNCHANGED <<hw, total, last_hw, since_save, initialized, flash, boots, counted,
                 ghosts>>

\* nvs_store_load_total and pulse_accumulator_restore.
Load ==
  /\ pc = "load"
  /\ pc' = "arm_irq"
  /\ \/ /\ nvs_written
        /\ total' = nvs_total /\ last_hw' = 0
        /\ last_saved_total' = nvs_total
        /\ base' = nvs_total
        /\ UNCHANGED load_failed
     \/ ~nvs_written /\ UNCHANGED <<total, last_hw, last_saved_total, base, load_failed>>
     \/ /\ load_failed' = TRUE
        /\ UNCHANGED <<total, last_hw, last_saved_total, base>>
  /\ UNCHANGED <<hw, since_save, initialized, flash, boots, counted, save_failed>>

\* The rest of the boot, up to the edge interrupt; its failure parks main().
ArmIrq ==
  /\ pc = "arm_irq"
  /\ pc' \in {"sample", "fatal_irq"}
  /\ UNCHANGED <<hw, ram, initialized, flash, boots, counted, ghosts>>
-----------------------------------------------------------------------------
(***************************************************************************)
(* The sample loop.                                                        *)
(***************************************************************************)

\* hw_pulse_counter_read and pulse_accumulator_update.  What main() then
\* publishes is the subject of module SummationPublish.
Sample ==
  /\ pc = "sample"
  /\ pc' = "persist"
  /\ total' = total + HwDelta(hw, last_hw)
  /\ last_hw' = hw
  /\ UNCHANGED <<hw, last_saved_total, since_save, initialized, flash, boots,
                 counted, ghosts>>

PersistSkip ==
  /\ pc = "persist"
  /\ ~ShouldWrite(total, last_saved_total, since_save)
  /\ pc' = "sleep"
  /\ UNCHANGED <<hw, ram, initialized, flash, boots, counted, ghosts>>

\* Mutant of PersistOk: saves the raw count of this boot.
PersistRawCount ==
  /\ pc = "persist" /\ initialized
  /\ ShouldWrite(total, last_saved_total, since_save)
  /\ nvs_total' = hw /\ nvs_written' = TRUE
  /\ last_saved_total' = total /\ since_save' = 0 /\ save_failed' = FALSE
  /\ pc' = "sleep"
  /\ UNCHANGED <<hw, total, last_hw, initialized, boots, counted, base, load_failed>>

PersistOk ==
  /\ pc = "persist"
  /\ ShouldWrite(total, last_saved_total, since_save)
  /\ initialized
  /\ nvs_total' = total /\ nvs_written' = TRUE
  /\ last_saved_total' = total
  /\ since_save' = 0
  /\ save_failed' = FALSE
  /\ pc' = "sleep"
  /\ UNCHANGED <<hw, total, last_hw, initialized, boots, counted, base, load_failed>>

\* nvs_write fails, or there is no mounted store: retried on the next loop.
PersistFail ==
  /\ pc = "persist"
  /\ ShouldWrite(total, last_saved_total, since_save)
  /\ save_failed' = TRUE
  /\ pc' = "sleep"
  /\ UNCHANGED <<hw, ram, initialized, flash, boots, counted, base, load_failed>>

Sleep ==
  /\ pc = "sleep"
  /\ pc' = "sample"
  /\ since_save' = IF since_save < Interval THEN since_save + 1 ELSE since_save
  /\ UNCHANGED <<hw, total, last_hw, last_saved_total, initialized, flash, boots,
                 counted, ghosts>>
-----------------------------------------------------------------------------
Loop == Sample \/ PersistSkip \/ PersistOk \/ PersistFail \/ Sleep
Main == NvsInit \/ HwInit \/ EraseCheck \/ Load \/ ArmIrq \/ Loop
Next == Pulse \/ Reset \/ PowerOn \/ Main

Spec == Init /\ [][Next]_vars

\* The main thread is the highest-priority thread that never yields for good,
\* and a flash write that is retried for ever does not fail for ever.
FairSpec == Spec /\ WF_vars(Main) /\ SF_vars(PersistOk)
-----------------------------------------------------------------------------
TypeOK ==
  /\ pc \in Locations
  /\ hw \in 0..(HwMod - 1) /\ last_hw \in 0..(HwMod - 1)
  /\ total \in Nat /\ last_saved_total \in Nat
  /\ since_save \in 0..Interval
  /\ initialized \in BOOLEAN
  /\ nvs_written \in BOOLEAN /\ nvs_total \in Nat
  /\ boots \in 0..MaxBoots
  /\ counted \in 0..MaxPulses /\ base \in Nat
  /\ load_failed \in BOOLEAN /\ save_failed \in BOOLEAN

\* Every pulse the hardware counted in this boot is in the total or still to
\* be sampled, once: across the counter's wrap, and including the pulses that
\* arrived between hw_pulse_counter_init and the restore from flash
\* (pulse_accumulator.c).
Conservation ==
  pc \in Counting => total + Unsampled = base + counted

Healthy == initialized /\ ~load_failed /\ ~save_failed

\* main.c's loss bound.  Whenever the loop has been through the policy and the
\* last save did not fail, a reset now loses fewer than MaxDelta sampled
\* pulses, and none of them if the interval is over: flash is measured against
\* what the hardware really counted, not against last_saved_total.
LossBound ==
  pc = "sleep" /\ Healthy =>
    /\ base + counted - nvs_total < MaxDelta + Unsampled
    /\ since_save = Interval => nvs_total = total

\* Flash never claims more energy than was metered, unless this boot failed to
\* read the record it is going to overwrite.
NoPhantomEnergy ==
  pc \in Restored /\ initialized /\ ~load_failed => nvs_total <= total

\* main.c:464-470, "the *first* time the total changes after boot triggers an
\* immediate write": a device that is rebooted before threshold and interval still
\* has in flash some of what it counted, each time.
FirstChangeSaved ==
  pc = "sleep" /\ Healthy /\ total # base => nvs_total > base

\* The persisted total goes down only to zero, by the wipe of an unmountable
\* partition or the boot-hold erase, or by the first save of a boot whose load
\* failed.
StoredNeverDecreases ==
  [][\/ nvs_total' >= nvs_total
     \/ nvs_total' = 0 /\ pc \in {"nvs_init", "erase_check"}
     \/ load_failed /\ last_saved_total = 0]_flash

\* Once the pulses stop, and the device neither resets nor is parked in a
\* fatal loop, every pulse ends up in flash, however late it came.
EventuallyDurable ==
  <>[](\/ pc \in {"off", "fatal_hw", "fatal_irq"}
       \/ ~initialized \/ load_failed
       \/ nvs_total = base + counted)

\* The promise the pipeline implements: a meter with one durable reading.
Meter == INSTANCE DurableMeter WITH
           up      <- pc \in Restored,
           reading <- IF pc \in Restored THEN total ELSE 0,
           stored  <- nvs_total
MeterSpec == Meter!Spec
=============================================================================
