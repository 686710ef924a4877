---------------------------- MODULE LedPriority ----------------------------
(***************************************************************************)
(* The LED priority core, src/led_priority.{h,c}.  Every caller pairs a    *)
(* pattern with its own priority, so the active pattern is the whole state.*)
(***************************************************************************)
EXTENDS Integers

\* enum led_priority, indexed by pattern: a smaller number wins.
Prio == [FATAL |-> 1, LONG_PRESS_HOLD |-> 2, JOINING |-> 3, JOIN_SUCCESS |-> 4,
         JOIN_FAIL |-> 5, ERASE_CONFIRM |-> 6, BUTTON_ACK |-> 7, HEARTBEAT |-> 8]

Pattern == {"FATAL", "LONG_PRESS_HOLD", "JOINING", "JOIN_SUCCESS", "JOIN_FAIL",
            "ERASE_CONFIRM", "BUTTON_ACK", "HEARTBEAT"}

\* Mutant of Requested: the last request wins.
RequestedLast(active, pattern) == pattern

\* led_priority_request: a loser is dropped, never queued.
Requested(active, pattern) ==
  IF active = "NONE" \/ Prio[pattern] < Prio[active] THEN pattern ELSE active

\* led_priority_cancel.
Cancelled(active, pattern) == IF active = pattern THEN "NONE" ELSE active
=============================================================================
