---------------------------- MODULE BatteryLevel ----------------------------
(***************************************************************************)
(* src/battery_level.c: millivolts to a percentage and to the two bytes of *)
(* the ZCL Power Configuration cluster.                                    *)
(***************************************************************************)
EXTENDS Integers

Unknown == 255                          \* BATTERY_LEVEL_ZCL_UNKNOWN
Millivolts == 0..65535                  \* uint16_t
Byte == 0..255                          \* uint8_t

\* Linear between empty and full, clamped at both ends, rounded to nearest.
Percent(mv, empty, full) ==
  IF full <= empty \/ mv <= empty THEN 0
  ELSE IF mv >= full THEN 100
  ELSE ((mv - empty) * 100 + (full - empty) \div 2) \div (full - empty)

\* Units of 0.5 %.
ZclPercentage(percent) == IF percent >= 100 THEN 200 ELSE 2 * percent

\* Mutant of ZclVoltage: the cast to a byte without saturation.
VoltageCast(mv) == ((mv + 50) \div 100) % 256

\* Units of 100 mV, rounded to nearest, short of the value for unknown.
ZclVoltage(mv) ==
  LET units == (mv + 50) \div 100
  IN  IF units > Unknown - 1 THEN Unknown - 1 ELSE units
=============================================================================
