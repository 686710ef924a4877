--------------------------- MODULE JoinLifecycle ---------------------------
(***************************************************************************)
(* Joining, leaving and the LED that tells about it (src/zigbee_app.c):    *)
(* the button's dispatch thread calls start_join, factory_reset and        *)
(* wake_for_write, whose callbacks and the stack's signals run on the      *)
(* ZBOSS thread.  That thread preempts the dispatch thread, the lowest-    *)
(* priority one, between any two of its steps, never the other way round.  *)
(*                                                                         *)
(* ZBOSS itself is external: it commissions one thing at a time, refuses a *)
(* steering request meanwhile, steers by itself when it is off the network *)
(* and falls back to its own poll interval when it does.                   *)
(***************************************************************************)
EXTENDS LedPriority, Sequences

CONSTANTS
  QueueCap,     \* slots of the ZBOSS application callback queue
  MaxJoins      \* bound on the joins the user asks for

ASSUME JoinAssumption == QueueCap \in Nat \ {0} /\ MaxJoins \in Nat

VARIABLES
  user,         \* where the dispatch thread is in a call to zigbee_app
  queue,        \* scheduled ZBOSS callbacks
  stack,        \* what ZBOSS is commissioning: init, idle, steering, leaving
  joined,
  in_flight,    \* user_join_in_flight
  led,          \* the active LED pattern
  long_poll,    \* the poll interval in force: ZBOSS's default, or the attribute's
  turbo,        \* a turbo-poll window is open
  joins,        \* ghost: joins the user asked for
  outcomes,     \* ghost: outcomes announced on the LED
  overtaken,    \* ghost: the device parted from its network under a pending wake
  refused,      \* ghost: a steering was, since the flag was last set
  raced         \* ghost: since then one resolved between the flag and the LED request

poll   == <<long_poll, turbo>>
astray == <<refused, raced>>
ghosts == <<joins, outcomes, overtaken, astray>>
vars   == <<user, queue, stack, joined, in_flight, led, poll, ghosts>>

\* Who else lights the LED while a join can be under way.
Others == {"LONG_PRESS_HOLD", "ERASE_CONFIRM", "BUTTON_ACK", "HEARTBEAT"}

\* ZB_SCHEDULE_APP_CALLBACK: a full queue refuses, and no caller looks.
Schedule(callback) ==
  queue' = IF Len(queue) < QueueCap THEN Append(queue, callback) ELSE queue

WakePending == user = "wake" \/ \E i \in DOMAIN queue : queue[i] = "wake"
JoinPending == user \in {"ack", "flag", "led"} \/ \E i \in DOMAIN queue : queue[i] = "steer"

Init ==
  /\ user = "idle" /\ queue = <<>>
  /\ stack = "init" /\ joined = FALSE
  /\ in_flight = FALSE /\ led = "NONE"
  /\ long_poll = "default" /\ turbo = FALSE
  /\ joins = 0 /\ outcomes = 0 /\ overtaken = FALSE
  /\ refused = FALSE /\ raced = FALSE
-----------------------------------------------------------------------------
(***************************************************************************)
(* The dispatch thread.                                                    *)
(***************************************************************************)

\* A short press by a user whose device is not joined, and the 100 ms ack.
PressJoin ==
  /\ user = "idle" /\ ~joined /\ joins < MaxJoins
  /\ joins' = joins + 1
  /\ user' = "ack"
  /\ UNCHANGED <<queue, stack, joined, in_flight, led, poll, outcomes, overtaken, astray>>

StartJoinFlag ==
  /\ user = "ack"
  /\ in_flight' = TRUE
  /\ user' = "flag"
  /\ refused' = FALSE /\ raced' = FALSE
  /\ UNCHANGED <<queue, stack, joined, led, poll, joins, outcomes, overtaken>>

StartJoinLed ==
  /\ user = "flag"
  /\ led' = Requested(led, "JOINING")
  /\ user' = "led"
  /\ UNCHANGED <<queue, stack, joined, in_flight, poll, ghosts>>

StartJoinSchedule ==
  /\ user = "led"
  /\ Schedule("steer")
  /\ user' = "idle"
  /\ refused' = (refused \/ queue' = queue)
  /\ UNCHANGED <<stack, joined, in_flight, led, poll, joins, outcomes, overtaken, raced>>

FactoryReset ==
  /\ user = "idle"
  /\ Schedule("reset")
  /\ UNCHANGED <<user, stack, joined, in_flight, led, poll, ghosts>>

\* Mutant of WakeCheck: trusts the dispatch thread's earlier look.
WakeUnchecked ==
  /\ user = "idle"
  /\ user' = "wake"
  /\ UNCHANGED <<queue, stack, joined, in_flight, led, poll, ghosts>>

\* wake_for_write looks at joined, which may change before it schedules.
WakeCheck ==
  /\ user = "idle" /\ joined
  /\ user' = "wake"
  /\ UNCHANGED <<queue, stack, joined, in_flight, led, poll, ghosts>>

WakeSchedule ==
  /\ user = "wake"
  /\ Schedule("wake")
  /\ user' = "idle"
  /\ overtaken' = (overtaken /\ WakePending')
  /\ UNCHANGED <<stack, joined, in_flight, led, poll, joins, outcomes, astray>>
-----------------------------------------------------------------------------
(***************************************************************************)
(* The ZBOSS thread: callbacks.                                            *)
(***************************************************************************)

\* The device loses its network: a wake that is pending comes too late.
Parts ==
  /\ joined' = FALSE
  /\ overtaken' = (overtaken \/ (joined /\ WakePending))

\* start_steering_cb.  A refusal is logged, nothing more.
RunSteer ==
  /\ queue # <<>> /\ Head(queue) = "steer"
  /\ queue' = Tail(queue)
  /\ IF stack = "idle"
     THEN stack' = "steering" /\ long_poll' = "default" /\ UNCHANGED refused
     ELSE refused' = TRUE /\ UNCHANGED <<stack, long_poll>>
  /\ UNCHANGED <<user, joined, in_flight, led, turbo, joins, outcomes, overtaken, raced>>

\* factory_reset_cb.
RunReset ==
  /\ queue # <<>> /\ Head(queue) = "reset"
  /\ queue' = Tail(queue)
  /\ Parts
  /\ stack' = IF joined /\ stack = "idle" THEN "leaving" ELSE stack
  /\ UNCHANGED <<user, in_flight, led, poll, joins, outcomes, astray>>

\* wake_turbo_poll_cb does not look at joined again.
RunWake ==
  /\ queue # <<>> /\ Head(queue) = "wake"
  /\ queue' = Tail(queue)
  /\ turbo' = TRUE
  /\ UNCHANGED <<user, stack, joined, in_flight, led, long_poll, joins, outcomes, astray>>
  /\ overtaken' = (overtaken /\ WakePending')
-----------------------------------------------------------------------------
(***************************************************************************)
(* zboss_signal_handler, one action per signal.                            *)
(***************************************************************************)

\* apply_sleepy_poll_intervals_if_joined: the LongPollInterval attribute to the
\* poll interval manager, and a turbo-poll window for the coordinator's interview.
ApplySleepyPollIntervals(success) ==
  IF success THEN long_poll' = "attribute" /\ turbo' = TRUE ELSE UNCHANGED poll

\* joined = (status == RET_OK).
Resolve ==
  /\ stack = "steering"
  /\ stack' = "idle"
  /\ \/ joined' = TRUE /\ UNCHANGED overtaken
     \/ Parts
  /\ raced' = (raced \/ user = "flag")

\* Mutants of SteeringSignal: the flag is read but not cleared, or cleared on
\* success only; JOINING is left to lose against its outcome.
SteeringKeepsFlag ==
  /\ Resolve
  /\ outcomes' = IF in_flight THEN outcomes + 1 ELSE outcomes
  /\ led' = IF in_flight THEN "NONE" ELSE led
  /\ ApplySleepyPollIntervals(joined')
  /\ UNCHANGED <<user, queue, in_flight, joins, refused>>

SteeringClearsOnSuccess ==
  /\ Resolve
  /\ in_flight' = (in_flight /\ ~joined')
  /\ ApplySleepyPollIntervals(joined')
  /\ UNCHANGED <<user, queue, led, joins, outcomes, refused>>

SteeringWithoutCancel ==
  /\ Resolve
  /\ IF in_flight
     THEN /\ in_flight' = FALSE
          /\ led' = Requested(led, IF joined' THEN "JOIN_SUCCESS" ELSE "JOIN_FAIL")
          /\ outcomes' = outcomes + 1
     ELSE UNCHANGED <<in_flight, led, outcomes>>
  /\ ApplySleepyPollIntervals(joined')
  /\ UNCHANGED <<user, queue, joins, refused>>

SteeringSignal ==
  /\ Resolve
  /\ IF in_flight
     THEN /\ in_flight' = FALSE
          /\ led' = Requested(Cancelled(led, "JOINING"),
                              IF joined' THEN "JOIN_SUCCESS" ELSE "JOIN_FAIL")
          /\ outcomes' = outcomes + 1
     ELSE UNCHANGED <<in_flight, led, outcomes>>
  /\ ApplySleepyPollIntervals(joined')
  /\ UNCHANGED <<user, queue, joins, refused>>

\* Mutant of RebootSignal: the attribute is left to the stack to apply.
RebootWithoutApply ==
  /\ stack = "init"
  /\ stack' = "idle"
  /\ joined' \in {joined, TRUE}
  /\ UNCHANGED <<user, queue, in_flight, led, poll, ghosts>>

\* ZB_BDB_SIGNAL_DEVICE_REBOOT: reattached to the saved network, or not.
RebootSignal ==
  /\ stack = "init"
  /\ stack' = "idle"
  /\ joined' \in {joined, TRUE}
  /\ ApplySleepyPollIntervals(joined')
  /\ UNCHANGED <<user, queue, in_flight, led, ghosts>>

\* ZB_ZDO_SIGNAL_LEAVE, after a local reset or by the coordinator.
LeaveSignal ==
  /\ \/ stack = "leaving"
     \/ stack = "idle" /\ joined
  /\ stack' = "idle"
  /\ Parts
  /\ UNCHANGED <<user, queue, in_flight, led, poll, joins, outcomes, astray>>
-----------------------------------------------------------------------------
\* The stack's own rejoin.
StackSteers ==
  /\ stack = "idle" /\ ~joined
  /\ stack' = "steering" /\ long_poll' = "default"
  /\ UNCHANGED <<user, queue, joined, in_flight, led, turbo, ghosts>>

\* The turbo-poll window ends by itself.
TurboEnds ==
  /\ turbo /\ turbo' = FALSE
  /\ UNCHANGED <<user, queue, stack, joined, in_flight, led, long_poll, ghosts>>

\* The rest of the program on the same LED, and the patterns that run out or are
\* cancelled (module LedController).
OthersLight ==
  /\ \E p \in Others : led' = Requested(led, p)
  /\ UNCHANGED <<user, queue, stack, joined, in_flight, poll, ghosts>>

PatternEnds ==
  /\ led \in Others \cup {"JOIN_SUCCESS", "JOIN_FAIL"}
  /\ led' = "NONE"
  /\ UNCHANGED <<user, queue, stack, joined, in_flight, poll, ghosts>>

Presses  == PressJoin \/ FactoryReset \/ WakeCheck
UserStep == StartJoinFlag \/ StartJoinLed \/ StartJoinSchedule \/ WakeSchedule
Callback == RunSteer \/ RunReset \/ RunWake
Signal   == SteeringSignal \/ RebootSignal \/ LeaveSignal

Next == \/ Presses \/ UserStep \/ Callback \/ Signal \/ StackSteers
        \/ TurboEnds \/ OthersLight \/ PatternEnds
Spec == Init /\ [][Next]_vars

\* The threads get the processor and a commissioning ends in its signal.
FairSpec ==
  Spec /\ WF_vars(UserStep) /\ WF_vars(Callback)
       /\ WF_vars(SteeringSignal) /\ WF_vars(RebootSignal)
-----------------------------------------------------------------------------
TypeOK ==
  /\ user \in {"idle", "ack", "flag", "led", "wake"}
  /\ queue \in Seq({"steer", "reset", "wake"}) /\ Len(queue) <= QueueCap
  /\ stack \in {"init", "idle", "steering", "leaving"}
  /\ joined \in BOOLEAN /\ in_flight \in BOOLEAN
  /\ led \in Pattern \cup {"NONE"}
  /\ long_poll \in {"default", "attribute"} /\ turbo \in BOOLEAN
  /\ joins \in 0..MaxJoins /\ outcomes \in Nat /\ overtaken \in BOOLEAN
  /\ refused \in BOOLEAN /\ raced \in BOOLEAN

\* A join the user asked for is answered on the LED at most once, however many
\* steerings resolve, and a device nobody touched shows none (zigbee_app.c:371-377).
OneOutcomePerJoin ==
  /\ outcomes <= joins
  /\ joins = 0 => led \notin {"JOINING", "JOIN_SUCCESS", "JOIN_FAIL"}

\* zigbee_app.c:371-378: what announces a join goes with it.  The flag is up only
\* for a steering that is asked for or going on, and blue blinks only with the flag;
\* but start_steering_cb's refusal (or the queue's) leaves both behind, to be taken
\* for the stack's own rejoin, and a steering that resolves between the flag and the
\* LED request leaves the blinking.
JoiningIsBacked ==
  /\ in_flight => stack = "steering" \/ JoinPending \/ refused
  /\ led = "JOINING" => in_flight \/ raced

\* zigbee_app.c:603-612: an answer is on the LED when it is given, and the right
\* one, unless the hold pattern keeps it off or the steering resolved in the race
\* of JoiningIsBacked.
AnswerIsVisible ==
  [][outcomes' # outcomes =>
       \/ led' = IF joined' THEN "JOIN_SUCCESS" ELSE "JOIN_FAIL"
       \/ led = "LONG_PRESS_HOLD" \/ user = "flag"]_vars

\* zigbee_app.c:398-412: on a network, the poll interval is the attribute's, not
\* the stack's default, however often the device was steered, left or reattached.
PollsAsAsked == joined /\ stack # "steering" => long_poll = "attribute"

\* zigbee_app.h:56-58: a turbo-poll window never opens without a parent to poll,
\* but for a wake whose device parted between wake_for_write's check and the
\* callback, which does not check again.
NoStrayTurbo == [][~turbo /\ turbo' /\ ~joined' => overtaken]_vars

\* While a user waits, the next steering to resolve answers, even if it is not
\* the user's own.
WaitingIsAnswered == stack = "steering" /\ in_flight ~> ~in_flight
=============================================================================
