------------------------- MODULE MCSummationPublish -------------------------
(* A callback queue of two and two callbacks of the button's thread, so that *)
(* two publishes and a tick overlap and the queue is full of either kind.    *)
EXTENDS SummationPublish
=============================================================================
