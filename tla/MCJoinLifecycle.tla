-------------------------- MODULE MCJoinLifecycle --------------------------
(* Two joins and a queue of two, so that joins overlap each other, a reset   *)
(* and the stack's own steering, and the queue refuses a callback.           *)
EXTENDS JoinLifecycle
=============================================================================
