--------------------------- MODULE MCBatteryReport ---------------------------
(* The one reading whose voltage, in units of 100 mV, is the byte that means *)
(* unknown unless it saturates; conversions enough for both callers to       *)
(* sample before and within one copy.                                        *)
EXTENDS BatteryReport
=============================================================================
