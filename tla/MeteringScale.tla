---------------------------- MODULE MeteringScale ----------------------------
(***************************************************************************)
(* src/metering_scale.c: a 64-bit total cut to the two words of the ZCL    *)
(* 48-bit CurrentSummationDelivered.  The words' widths are parameters.    *)
(***************************************************************************)
EXTENDS Integers

CONSTANTS
  LowMod,    \* 2^32, the modulus of metering_u48.low
  HighMod    \* 2^16, the modulus of metering_u48.high

ASSUME WordAssumption == LowMod \in Nat \ {0} /\ HighMod \in Nat \ {0}

\* METERING_SUMMATION_U48_MAX.
SummationMax == LowMod * HighMod - 1

Split(total) == [low |-> total % LowMod, high |-> (total \div LowMod) % HighMod]

\* Mutant of ScaleToU48: no clamp, the total wraps.
ScaleWraps(total) == Split(total)

\* metering_scale_to_u48: a total that does not fit saturates.
ScaleToU48(total) == Split(IF total > SummationMax THEN SummationMax ELSE total)

\* What a reader of the attribute makes of the two words.
Reading(v) == v.high * LowMod + v.low

Words == [low : 0..(LowMod - 1), high : 0..(HighMod - 1)]
=============================================================================
