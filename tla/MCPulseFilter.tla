---------------------------- MODULE MCPulseFilter ----------------------------
(* Both sources, a timer that wraps at 8, widths below and above one another, *)
(* pulses longer than a wrap.                                                 *)
EXTENDS PulseFilter
=============================================================================
