-------------------------- MODULE MCLedController --------------------------
(***************************************************************************)
(* The renderer with the tick counts and the fatal codes of the code.      *)
(***************************************************************************)
EXTENDS LedController
=============================================================================
