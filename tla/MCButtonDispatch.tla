-------------------------- MODULE MCButtonDispatch --------------------------
(* One unit is a second: a press is short below 2, in the dead zone at 2 and *)
(* long from 3 on.  Up to three presses, so that two overlap one dispatch.   *)
EXTENDS ButtonDispatch
=============================================================================
