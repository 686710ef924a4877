---------------------------- MODULE Calibration ----------------------------
(***************************************************************************)
(* The two installer settings that survive a reboot, the Metering Divisor  *)
(* (imp/kWh) and the minimum pulse width: the ZCL post-write callback and  *)
(* the attribute initialisation of src/zigbee_app.c, the width filter of   *)
(* src/hw_pulse_counter.c and their records in src/nvs_store.c.            *)
(*                                                                         *)
(* The ZBOSS thread stores the written value in the attribute table before *)
(* it calls the callback, and serves reads only after it: a write is one   *)
(* action.  A reset inside it is a reset before or after its flash write.  *)
(***************************************************************************)
EXTENDS Integers

CONSTANTS
  Values,      \* values a coordinator may write, or an older firmware stored
  DivisorMin, DivisorMax,    \* CALIBRATION_IMP_PER_KWH_*
  WidthMin, WidthMax,        \* CALIBRATION_PULSE_MIN_WIDTH_US_*
  DefaultDivisor,            \* METERING_DEFAULT_DIVISOR
  DefaultWidth,              \* CONFIG_APP_PULSE_MIN_WIDTH_US
  None         \* no record in flash

ValidDivisor(v) == DivisorMin <= v /\ v <= DivisorMax
ValidWidth(v)   == WidthMin <= v /\ v <= WidthMax

ASSUME CalibrationAssumption ==
  /\ Values \subseteq Nat /\ None \notin Nat
  /\ {DivisorMin, DivisorMax, WidthMin, WidthMax} \subseteq Nat
  /\ DefaultDivisor \in Values /\ ValidDivisor(DefaultDivisor)
  /\ DefaultWidth \in Values /\ ValidWidth(DefaultWidth)

VARIABLES
  pc,                 \* off, hw_init, attr_init, running
  initialized,        \* nvs_store's flag
  nvs_divisor,        \* record NVS_ID_IMP_PER_KWH
  nvs_width,          \* record NVS_ID_PULSE_MIN_WIDTH_US
  hw_width,           \* TIMER3.CC[0], the filter's threshold
  attr_divisor,       \* the Divisor attribute
  attr_width,         \* the min-pulse-width attribute
  effective_divisor,
  load_failed,        \* ghost: a load of this boot met a read error
  want_divisor,       \* ghosts: the last settings written and saved since the
  want_width          \*         last wipe

nvs   == <<nvs_divisor, nvs_width>>
attrs == <<attr_divisor, attr_width, effective_divisor>>
wants == <<want_divisor, want_width>>
vars  == <<pc, initialized, nvs, hw_width, attrs, load_failed, wants>>

\* Mutant of DivisorOf and one of WidthOf: the record is taken as it is.
DivisorUnchecked(record) == record
WidthUnchecked(record) == IF record # None THEN record ELSE DefaultWidth

\* The setting a stored record stands for.
DivisorOf(record) ==
  IF record # None /\ ValidDivisor(record) THEN record ELSE DefaultDivisor
WidthOf(record) ==
  IF record # None /\ ValidWidth(record) THEN record ELSE DefaultWidth

\* What a load can bring into RAM: without a mount nothing, else the record,
\* or nothing after a read error.
Readable(record) == IF initialized THEN {record, None} ELSE {None}
ReadError(record, loaded) == loaded # record

Init ==
  /\ pc = "off" /\ initialized = FALSE
  /\ nvs_divisor \in Values \cup {None} /\ nvs_width \in Values \cup {None}
  /\ hw_width = 0 /\ attr_divisor = 0 /\ attr_width = 0 /\ effective_divisor = 0
  /\ load_failed = FALSE
  /\ want_divisor = DivisorOf(nvs_divisor) /\ want_width = WidthOf(nvs_width)
-----------------------------------------------------------------------------
(***************************************************************************)
(* Reset and boot.                                                         *)
(***************************************************************************)

Reset ==
  /\ pc # "off"
  /\ pc' = "off" /\ initialized' = FALSE
  /\ hw_width' = 0 /\ attr_divisor' = 0 /\ attr_width' = 0 /\ effective_divisor' = 0
  /\ load_failed' = FALSE
  /\ UNCHANGED <<nvs, wants>>

\* nvs_store_init: mounted, not mounted, or wiped and tried again.
NvsInit ==
  /\ pc = "off"
  /\ pc' = "hw_init"
  /\ initialized' \in BOOLEAN
  /\ \/ UNCHANGED <<nvs, wants>>
     \/ /\ nvs_divisor' = None /\ nvs_width' = None
        /\ want_divisor' = DefaultDivisor /\ want_width' = DefaultWidth
  /\ UNCHANGED <<hw_width, attrs, load_failed>>

\* hw_pulse_counter_init programs effective_min_width_us_at_init().
HwInit ==
  /\ pc = "hw_init"
  /\ pc' = "attr_init"
  /\ \E loaded \in Readable(nvs_width) :
       /\ hw_width' = WidthOf(loaded)
       /\ load_failed' = ReadError(nvs_width, loaded)
  /\ UNCHANGED <<initialized, nvs, attrs, wants>>

\* metering_attrs_init, from zigbee_app_init: it loads the width once more.
MeteringAttrsInit ==
  /\ pc = "attr_init"
  /\ pc' = "running"
  /\ \E divisor \in Readable(nvs_divisor), width \in Readable(nvs_width) :
       /\ effective_divisor' = DivisorOf(divisor)
       /\ attr_divisor' = DivisorOf(divisor)
       /\ attr_width' = WidthOf(width)
       /\ load_failed' = (load_failed \/ ReadError(nvs_divisor, divisor)
                                      \/ ReadError(nvs_width, width))
  /\ UNCHANGED <<initialized, nvs, hw_width, wants>>
-----------------------------------------------------------------------------
(***************************************************************************)
(* zcl_device_cb, with the attribute store that precedes it.               *)
(***************************************************************************)

\* Mutant of RejectDivisor: the value ZBOSS stored stays.
RejectWithoutRollback(v) ==
  /\ pc = "running" /\ ~ValidDivisor(v)
  /\ attr_divisor' = v
  /\ UNCHANGED <<pc, initialized, nvs, hw_width, attr_width, effective_divisor,
                 load_failed, wants>>

\* ZBOSS stored v; the callback puts effective_divisor back.
RejectDivisor(v) ==
  /\ pc = "running" /\ ~ValidDivisor(v)
  /\ attr_divisor' = effective_divisor
  /\ UNCHANGED <<pc, initialized, nvs, hw_width, attr_width, effective_divisor,
                 load_failed, wants>>

\* Mutant of AcceptDivisor: saves the previous value.
AcceptSavesPrevious(v) ==
  /\ pc = "running" /\ ValidDivisor(v)
  /\ attr_divisor' = v /\ effective_divisor' = v
  /\ \/ initialized /\ nvs_divisor' = effective_divisor /\ want_divisor' = v
     \/ UNCHANGED <<nvs_divisor, want_divisor>>
  /\ UNCHANGED <<pc, initialized, nvs_width, hw_width, attr_width, load_failed,
                 want_width>>

\* A failed save keeps the value in memory only.
AcceptDivisor(v) ==
  /\ pc = "running" /\ ValidDivisor(v)
  /\ attr_divisor' = v
  /\ \/ initialized /\ nvs_divisor' = v /\ want_divisor' = v
     \/ UNCHANGED <<nvs_divisor, want_divisor>>
  /\ effective_divisor' = v
  /\ UNCHANGED <<pc, initialized, nvs_width, hw_width, attr_width, load_failed,
                 want_width>>

\* ZBOSS stored v; the callback reads the value to put back from the attribute
\* itself, where it finds v.
RejectWidth(v) ==
  /\ pc = "running" /\ ~ValidWidth(v)
  /\ attr_width' = v
  /\ UNCHANGED <<pc, initialized, nvs, hw_width, attr_divisor, effective_divisor,
                 load_failed, wants>>

\* Hardware first, then flash, then the attribute.
AcceptWidth(v) ==
  /\ pc = "running" /\ ValidWidth(v)
  /\ hw_width' = v
  /\ \/ initialized /\ nvs_width' = v /\ want_width' = v
     \/ UNCHANGED <<nvs_width, want_width>>
  /\ attr_width' = v
  /\ UNCHANGED <<pc, initialized, nvs_divisor, attr_divisor, effective_divisor,
                 load_failed, want_divisor>>
-----------------------------------------------------------------------------
Boot  == NvsInit \/ HwInit \/ MeteringAttrsInit
Write == \E v \in Values : \/ RejectDivisor(v) \/ AcceptDivisor(v)
                           \/ RejectWidth(v) \/ AcceptWidth(v)

Next == Reset \/ Boot \/ Write
Spec == Init /\ [][Next]_vars
-----------------------------------------------------------------------------
TypeOK ==
  /\ pc \in {"off", "hw_init", "attr_init", "running"}
  /\ initialized \in BOOLEAN /\ load_failed \in BOOLEAN
  /\ nvs_divisor \in Values \cup {None} /\ nvs_width \in Values \cup {None}
  /\ {hw_width, attr_divisor, attr_width, effective_divisor} \subseteq Values \cup {0}
  /\ want_divisor \in Values /\ want_width \in Values

\* README.md:220-221: the Divisor a coordinator reads back is the valid one the
\* device goes by, whatever was written, whatever an older firmware left in
\* flash and whether or not the save succeeded.
DivisorReadbackIsTrue ==
  pc = "running" => attr_divisor = effective_divisor /\ ValidDivisor(attr_divisor)

\* The filter never runs with a threshold outside the range that
\* hw_pulse_counter.c and calibration.h allow.
FilterInRange == pc \in {"attr_init", "running"} => ValidWidth(hw_width)

\* zigbee_app.c:743-744, 945-949: settings survive a reboot.  Before the first
\* write of a boot whose loads succeeded, both are the last ones saved by any
\* earlier boot, or the defaults after a wipe.  After a save that failed that is the
\* earlier saved value: zigbee_app.c:996-1000 speaks of the compile-time default,
\* which is only what a device without a record falls back to.
SettingsSurvive ==
  [][pc = "attr_init" /\ pc' = "running" /\ initialized /\ ~load_failed' =>
       /\ effective_divisor' = want_divisor
       /\ hw_width = want_width /\ attr_width' = want_width]_vars
-----------------------------------------------------------------------------
\* zigbee_app.c:913-918 on a width out of range, "rolling back to %u", like the
\* Divisor's (impl2.md:92-97): the readback tells the value in force.
WidthReadbackIsTrue == pc = "running" /\ ~load_failed => attr_width = hw_width
=============================================================================
