------------------------- MODULE CalibrationProofs -------------------------
(***************************************************************************)
(* Proofs about the two installer settings, for any set of values, any     *)
(* valid ranges and any valid defaults.                                    *)
(***************************************************************************)
EXTENDS Calibration, TLAPS

\* The settings wanted are what the records stand for, in every boot and while
\* the device is off.
Wanted ==
  want_divisor = DivisorOf(nvs_divisor) /\ want_width = WidthOf(nvs_width)

\* Between the two loads of the width, a boot without a read error runs the
\* filter at the record.
FilterAsStored ==
  pc = "attr_init" /\ ~load_failed => hw_width = WidthOf(nvs_width)

IInv == /\ TypeOK /\ Wanted /\ FilterAsStored
        /\ DivisorReadbackIsTrue /\ FilterInRange

\* Whatever a record holds, the setting it stands for is valid.
LEMMA SettingOf ==
  ASSUME NEW record \in Values \cup {None}
  PROVE  /\ DivisorOf(record) \in Values /\ ValidDivisor(DivisorOf(record))
         /\ WidthOf(record) \in Values /\ ValidWidth(WidthOf(record))
  BY CalibrationAssumption DEF DivisorOf, WidthOf

\* A valid value that is saved stands for itself.
LEMMA SavedValue ==
  ASSUME NEW v \in Values
  PROVE  /\ ValidDivisor(v) => DivisorOf(v) = v
         /\ ValidWidth(v) => WidthOf(v) = v
  BY CalibrationAssumption DEF DivisorOf, WidthOf

\* An empty record stands for the default.
LEMMA EmptyRecord == DivisorOf(None) = DefaultDivisor /\ WidthOf(None) = DefaultWidth
  BY DEF DivisorOf, WidthOf

\* A load brings the record or nothing.
LEMMA Loads ==
  ASSUME NEW record \in Values \cup {None}, NEW loaded \in Readable(record)
  PROVE  /\ loaded \in Values \cup {None}
         /\ ~ReadError(record, loaded) => loaded = record
  BY DEF Readable, ReadError

LEMMA InitIInv == Init => IInv
  <1> SUFFICES ASSUME Init PROVE IInv
    OBVIOUS
  <1>1. TypeOK /\ Wanted
    BY SettingOf DEF Init, TypeOK, Wanted
  <1>2. FilterAsStored /\ DivisorReadbackIsTrue /\ FilterInRange
    BY DEF Init, FilterAsStored, DivisorReadbackIsTrue, FilterInRange
  <1> QED
    BY <1>1, <1>2 DEF IInv

LEMMA NextIInv == IInv /\ [Next]_vars => IInv'
  <1> SUFFICES ASSUME IInv, [Next]_vars PROVE IInv'
    OBVIOUS
  <1> USE CalibrationAssumption DEF IInv
  <1>1. CASE Reset
    <2>1. TypeOK' /\ Wanted'
      BY <1>1 DEF Reset, TypeOK, Wanted, nvs, wants, DivisorOf, WidthOf
    <2>2. FilterAsStored' /\ DivisorReadbackIsTrue' /\ FilterInRange'
      BY <1>1 DEF Reset, FilterAsStored, DivisorReadbackIsTrue, FilterInRange
    <2> QED
      BY <2>1, <2>2
  <1>2. CASE NvsInit
    <2>1. TypeOK'
      BY <1>2 DEF NvsInit, TypeOK, nvs, wants, attrs
    <2>2. Wanted'
      BY <1>2, EmptyRecord DEF NvsInit, Wanted, nvs, wants, DivisorOf, WidthOf
    <2>3. FilterAsStored' /\ DivisorReadbackIsTrue' /\ FilterInRange'
      BY <1>2 DEF NvsInit, FilterAsStored, DivisorReadbackIsTrue, FilterInRange
    <2> QED
      BY <2>1, <2>2, <2>3
  <1>3. CASE HwInit
    <2>1. PICK loaded \in Readable(nvs_width) :
            hw_width' = WidthOf(loaded) /\ load_failed' = ReadError(nvs_width, loaded)
      BY <1>3 DEF HwInit
    <2>2. UNCHANGED <<initialized, nvs, attrs, wants>> /\ pc' = "attr_init"
      BY <1>3 DEF HwInit
    <2>3. hw_width' \in Values /\ ValidWidth(hw_width') /\ load_failed' \in BOOLEAN
      BY <2>1, Loads, SettingOf DEF TypeOK, ReadError
    <2>4. TypeOK' /\ Wanted'
      BY <2>2, <2>3 DEF TypeOK, Wanted, nvs, attrs, wants, DivisorOf, WidthOf
    <2>5. FilterAsStored'
      BY <2>1, <2>2, Loads DEF FilterAsStored, TypeOK, nvs, WidthOf
    <2>6. DivisorReadbackIsTrue' /\ FilterInRange'
      BY <2>2, <2>3 DEF DivisorReadbackIsTrue, FilterInRange, ValidWidth
    <2> QED
      BY <2>4, <2>5, <2>6
  <1>4. CASE MeteringAttrsInit
    <2>1. PICK divisor \in Readable(nvs_divisor), width \in Readable(nvs_width) :
            /\ effective_divisor' = DivisorOf(divisor)
            /\ attr_divisor' = DivisorOf(divisor)
            /\ attr_width' = WidthOf(width)
            /\ load_failed' = (load_failed \/ ReadError(nvs_divisor, divisor)
                                           \/ ReadError(nvs_width, width))
      BY <1>4 DEF MeteringAttrsInit
    <2>2. /\ UNCHANGED <<initialized, nvs, hw_width, wants>>
          /\ pc = "attr_init" /\ pc' = "running"
      BY <1>4 DEF MeteringAttrsInit
    <2>3. /\ DivisorOf(divisor) \in Values /\ ValidDivisor(DivisorOf(divisor))
          /\ WidthOf(width) \in Values
      BY Loads, SettingOf DEF TypeOK
    <2>4. TypeOK' /\ Wanted'
      BY <2>1, <2>2, <2>3 DEF TypeOK, Wanted, nvs, wants, DivisorOf, WidthOf
    <2>5. FilterAsStored' /\ DivisorReadbackIsTrue' /\ FilterInRange'
      BY <2>1, <2>2, <2>3
      DEF FilterAsStored, DivisorReadbackIsTrue, FilterInRange, ValidDivisor, ValidWidth
    <2> QED
      BY <2>4, <2>5
  <1>5. ASSUME NEW v \in Values, RejectDivisor(v) \/ RejectWidth(v)
        PROVE  IInv'
    <2>1. TypeOK' /\ Wanted'
      BY <1>5 DEF RejectDivisor, RejectWidth, TypeOK, Wanted, nvs, wants, DivisorOf, WidthOf
    <2>2. FilterAsStored' /\ DivisorReadbackIsTrue' /\ FilterInRange'
      BY <1>5 DEF RejectDivisor, RejectWidth, FilterAsStored, DivisorReadbackIsTrue,
                  FilterInRange, ValidDivisor, ValidWidth
    <2> QED
      BY <2>1, <2>2
  <1>6. ASSUME NEW v \in Values, AcceptDivisor(v)
        PROVE  IInv'
    <2>1. TypeOK'
      BY <1>6 DEF AcceptDivisor, TypeOK
    <2>2. Wanted'
      BY <1>6, SavedValue DEF AcceptDivisor, Wanted, DivisorOf, WidthOf
    <2>3. FilterAsStored' /\ DivisorReadbackIsTrue' /\ FilterInRange'
      BY <1>6 DEF AcceptDivisor, FilterAsStored, DivisorReadbackIsTrue, FilterInRange,
                  ValidDivisor, ValidWidth
    <2> QED
      BY <2>1, <2>2, <2>3
  <1>7. ASSUME NEW v \in Values, AcceptWidth(v)
        PROVE  IInv'
    <2>1. TypeOK'
      BY <1>7 DEF AcceptWidth, TypeOK
    <2>2. Wanted'
      BY <1>7, SavedValue DEF AcceptWidth, Wanted, DivisorOf, WidthOf
    <2>3. FilterAsStored' /\ DivisorReadbackIsTrue' /\ FilterInRange'
      BY <1>7 DEF AcceptWidth, FilterAsStored, DivisorReadbackIsTrue, FilterInRange,
                  ValidDivisor, ValidWidth
    <2> QED
      BY <2>1, <2>2, <2>3
  <1>8. CASE UNCHANGED vars
    BY <1>8 DEF vars, nvs, attrs, wants, TypeOK, Wanted, FilterAsStored,
                DivisorReadbackIsTrue, FilterInRange, DivisorOf, WidthOf,
                ValidDivisor, ValidWidth
  <1> QED
    BY <1>1, <1>2, <1>3, <1>4, <1>5, <1>6, <1>7, <1>8 DEF Next, Boot, Write

LEMMA Invariance == Spec => []IInv
  BY InitIInv, NextIInv, PTL DEF Spec
-----------------------------------------------------------------------------
\* Every record, attribute and setting is one a coordinator may have written.
THEOREM TypeCorrect == Spec => []TypeOK
  <1>1. IInv => TypeOK
    BY DEF IInv
  <1> QED
    BY <1>1, Invariance, PTL

\* README.md:220-221: the Divisor that is read back is the valid one in force.
THEOREM DivisorHonest == Spec => []DivisorReadbackIsTrue
  <1>1. IInv => DivisorReadbackIsTrue
    BY DEF IInv
  <1> QED
    BY <1>1, Invariance, PTL

\* No write, record or failed load puts the filter out of its range.
THEOREM FilterStaysValid == Spec => []FilterInRange
  <1>1. IInv => FilterInRange
    BY DEF IInv
  <1> QED
    BY <1>1, Invariance, PTL

\* A boot whose loads succeed runs with the last settings that were saved.
THEOREM SettingsKept == Spec => SettingsSurvive
  <1> DEFINE Boots == pc = "attr_init" /\ pc' = "running" /\ initialized /\ ~load_failed'
             Kept  == /\ effective_divisor' = want_divisor
                      /\ hw_width = want_width /\ attr_width' = want_width
  <1>1. IInv /\ [Next]_vars => [Boots => Kept]_vars
    <2> SUFFICES ASSUME IInv, Next, Boots PROVE Kept
      OBVIOUS
    <2>1. MeteringAttrsInit
      BY DEF Next, Reset, Boot, NvsInit, HwInit, Write, RejectDivisor, AcceptDivisor,
             RejectWidth, AcceptWidth
    <2>2. PICK divisor \in Readable(nvs_divisor), width \in Readable(nvs_width) :
            /\ effective_divisor' = DivisorOf(divisor)
            /\ attr_width' = WidthOf(width)
            /\ load_failed' = (load_failed \/ ReadError(nvs_divisor, divisor)
                                           \/ ReadError(nvs_width, width))
      BY <2>1 DEF MeteringAttrsInit
    <2>3. divisor = nvs_divisor /\ width = nvs_width /\ ~load_failed
      BY <2>2, Loads DEF IInv, TypeOK
    <2> QED
      BY <2>2, <2>3 DEF IInv, Wanted, FilterAsStored
  <1> QED
    BY <1>1, Invariance, PTL DEF Spec, SettingsSurvive
=============================================================================
