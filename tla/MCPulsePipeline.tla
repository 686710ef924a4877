-------------------------- MODULE MCPulsePipeline --------------------------
(* A two-bit hardware counter that wraps within one boot; two or three boots *)
(* so that a record survives one reset and is overwritten after another.     *)
EXTENDS PulsePipeline
=============================================================================
