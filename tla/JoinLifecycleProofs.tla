------------------------ MODULE JoinLifecycleProofs ------------------------
(***************************************************************************)
(* Proofs about joining, its answer on the LED and the poll interval, for  *)
(* any callback queue and any number of joins.                             *)
(***************************************************************************)
EXTENDS JoinLifecycle, TLAPS

\* A join that was asked for is still with the dispatch thread, awaits its
\* steering, or has been answered.
Owed == (IF user = "ack" THEN 1 ELSE 0) + (IF in_flight THEN 1 ELSE 0)
Accounted == outcomes + Owed <= joins

\* Without a join, nothing of one is under way or on the LED.
Untouched ==
  joins = 0 => /\ user \notin {"ack", "flag", "led"}
               /\ led \notin {"JOINING", "JOIN_SUCCESS", "JOIN_FAIL"}

\* The success of an earlier join has made way for JOINING before the next is
\* answered, and no fatal pattern is raised once the network is up.
ClearToAnswer ==
  /\ in_flight /\ user # "flag" => led # "JOIN_SUCCESS"
  /\ led # "FATAL"

\* A wake that is pending off the network was overtaken by the parting.
WakeOvertaken == WakePending /\ ~joined => overtaken

\* JOINING is about to be requested with the flag up, or after the race.
FlagOrRace == user = "flag" => in_flight \/ raced

IInv == /\ TypeOK /\ Accounted /\ Untouched /\ ClearToAnswer
        /\ WakeOvertaken /\ PollsAsAsked /\ JoiningIsBacked /\ FlagOrRace
-----------------------------------------------------------------------------
Callbacks == {"steer", "reset", "wake"}
WakeQueued == \E i \in DOMAIN queue : queue[i] = "wake"

SteerQueued == \E i \in DOMAIN queue : queue[i] = "steer"

LEMMA WakePendingSplit == WakePending <=> user = "wake" \/ WakeQueued
  BY DEF WakePending, WakeQueued

LEMMA JoinPendingSplit == JoinPending <=> user \in {"ack", "flag", "led"} \/ SteerQueued
  BY DEF JoinPending, SteerQueued

\* A scheduled callback is queued or refused; only a wake makes a wake pending, and
\* no steering that waits is lost.
LEMMA Scheduling ==
  ASSUME NEW c \in Callbacks, Schedule(c), queue \in Seq(Callbacks), Len(queue) <= QueueCap
  PROVE  /\ queue' \in Seq(Callbacks) /\ Len(queue') <= QueueCap
         /\ WakeQueued' => WakeQueued \/ c = "wake"
         /\ SteerQueued => SteerQueued'
         /\ c = "steer" => SteerQueued' \/ queue' = queue
  <1>1. CASE Len(queue) < QueueCap
    <2>1. queue' = Append(queue, c)
      BY <1>1 DEF Schedule
    <2>2. /\ queue' \in Seq(Callbacks) /\ Len(queue') = Len(queue) + 1
          /\ queue'[Len(queue) + 1] = c
          /\ \A i \in DOMAIN queue' : i # Len(queue) + 1 => /\ i \in DOMAIN queue
                                                            /\ queue'[i] = queue[i]
          /\ \A i \in DOMAIN queue : i \in DOMAIN queue' /\ queue'[i] = queue[i]
          /\ Len(queue) + 1 \in DOMAIN queue'
      BY <2>1
    <2>3. /\ SteerQueued => SteerQueued'
          /\ c = "steer" => SteerQueued'
      BY <2>2 DEF SteerQueued
    <2> QED
      BY <1>1, <2>2, <2>3, JoinAssumption DEF WakeQueued
  <1>2. CASE ~(Len(queue) < QueueCap)
    BY <1>2 DEF Schedule, WakeQueued, SteerQueued
  <1> QED
    BY <1>1, <1>2

\* Running a callback takes the first one from the queue and leaves the others.
LEMMA Popping ==
  ASSUME queue # <<>>, queue' = Tail(queue), queue \in Seq(Callbacks), Len(queue) <= QueueCap
  PROVE  /\ queue' \in Seq(Callbacks) /\ Len(queue') <= QueueCap
         /\ WakeQueued' => WakeQueued
         /\ Head(queue) = "wake" => WakeQueued
         /\ SteerQueued => SteerQueued' \/ Head(queue) = "steer"
  <1>1. /\ queue' \in Seq(Callbacks) /\ Len(queue') = Len(queue) - 1 /\ Len(queue) \in Nat
        /\ Len(queue) >= 1
        /\ \A i \in 1..Len(queue') : queue'[i] = queue[i + 1]
        /\ Head(queue) = queue[1] /\ DOMAIN queue = 1..Len(queue)
        /\ DOMAIN queue' = 1..Len(queue')
    OBVIOUS
  <1>2. ASSUME NEW i \in DOMAIN queue', queue'[i] = "wake"
        PROVE  i + 1 \in DOMAIN queue /\ queue[i + 1] = "wake"
    BY <1>1, <1>2
  <1>3. Head(queue) = "wake" => 1 \in DOMAIN queue /\ queue[1] = "wake"
    BY <1>1
  <1>4. /\ WakeQueued' => WakeQueued
        /\ Head(queue) = "wake" => WakeQueued
    BY <1>2, <1>3 DEF WakeQueued
  <1>5. ASSUME NEW i \in DOMAIN queue, queue[i] = "steer", i # 1
        PROVE  i - 1 \in DOMAIN queue' /\ queue'[i - 1] = "steer"
    BY <1>1, <1>5
  <1>6. SteerQueued => SteerQueued' \/ Head(queue) = "steer"
    BY <1>1, <1>5 DEF SteerQueued
  <1> QED
    BY <1>1, <1>4, <1>6, JoinAssumption

\* What the LED shows after a request or a cancellation is what it showed, what
\* was requested, or nothing.
LEMMA LedMoves ==
  ASSUME NEW a \in Pattern \cup {"NONE"}, NEW p \in Pattern
  PROVE  /\ Requested(a, p) \in {a, p} /\ Requested("NONE", p) = p
         /\ Requested("JOIN_SUCCESS", "JOINING") = "JOINING"
         /\ Cancelled(a, p) \in {a, "NONE"} /\ Cancelled(a, p) # p
  BY DEF Requested, Cancelled, Prio, Pattern

\* Whoever takes nothing back that announces or backs a join leaves it backed.
LEMMA BackedKept ==
  ASSUME JoiningIsBacked, FlagOrRace, UNCHANGED <<in_flight, raced>>,
         stack = "steering" => stack' = "steering", JoinPending => JoinPending' \/ refused',
         refused => refused',
         led' = "JOINING" => led = "JOINING", user' = "flag" => user = "flag"
  PROVE  JoiningIsBacked' /\ FlagOrRace'
  BY DEF JoiningIsBacked, FlagOrRace
-----------------------------------------------------------------------------
LEMMA InitIInv == Init => IInv
  <1> SUFFICES ASSUME Init PROVE IInv
    OBVIOUS
  <1> USE JoinAssumption DEF Init
  <1>1. /\ queue \in Seq({"steer", "reset", "wake"}) /\ Len(queue) <= QueueCap
        /\ joins \in 0..MaxJoins /\ outcomes \in Nat
    OBVIOUS
  <1>2. joined \in BOOLEAN /\ in_flight \in BOOLEAN /\ turbo \in BOOLEAN
        /\ overtaken \in BOOLEAN /\ refused \in BOOLEAN /\ raced \in BOOLEAN
    OBVIOUS
  <1>3. TypeOK
    BY <1>1, <1>2 DEF TypeOK
  <1>4. Accounted /\ Untouched /\ ClearToAnswer /\ PollsAsAsked
    BY DEF Accounted, Owed, Untouched, ClearToAnswer, PollsAsAsked
  <1>5. WakeOvertaken
    BY DEF WakeOvertaken, WakePending
  <1>6. JoiningIsBacked /\ FlagOrRace
    BY DEF JoiningIsBacked, FlagOrRace
  <1> QED
    BY <1>3, <1>4, <1>5, <1>6 DEF IInv
-----------------------------------------------------------------------------
(***************************************************************************)
(* The dispatch thread keeps the invariant.                                *)
(***************************************************************************)

LEMMA PressJoinKeeps == IInv /\ PressJoin => IInv'
  <1> SUFFICES ASSUME IInv, PressJoin PROVE IInv'
    OBVIOUS
  <1> USE JoinAssumption DEF IInv, PressJoin, poll, astray
  <1>1. TypeOK'
    <2>1. UNCHANGED <<refused, raced>>
      OBVIOUS
    <2>2. joins' \in 0..MaxJoins
      BY DEF TypeOK
    <2> QED
      BY <2>1, <2>2 DEF TypeOK
  <1>2. Accounted'
    BY DEF Accounted, Owed, TypeOK
  <1>3. Untouched' /\ ClearToAnswer' /\ PollsAsAsked'
    BY DEF Untouched, ClearToAnswer, PollsAsAsked, TypeOK
  <1>4. WakeOvertaken'
    BY DEF WakeOvertaken, WakePending
  <1>5. JoiningIsBacked' /\ FlagOrRace'
    BY BackedKept DEF JoinPending
  <1> QED
    BY <1>1, <1>2, <1>3, <1>4, <1>5

LEMMA StartJoinFlagKeeps == IInv /\ StartJoinFlag => IInv'
  <1> SUFFICES ASSUME IInv, StartJoinFlag PROVE IInv'
    OBVIOUS
  <1> USE DEF IInv, StartJoinFlag, poll
  <1>1. TypeOK'
    BY DEF TypeOK
  <1>2. Accounted'
    BY DEF Accounted, Owed, TypeOK
  <1>3. Untouched' /\ ClearToAnswer' /\ PollsAsAsked'
    BY DEF Untouched, ClearToAnswer, PollsAsAsked
  <1>4. WakeOvertaken'
    BY DEF WakeOvertaken, WakePending
  <1>5. JoiningIsBacked' /\ FlagOrRace'
    BY DEF JoiningIsBacked, FlagOrRace, JoinPending
  <1> QED
    BY <1>1, <1>2, <1>3, <1>4, <1>5

LEMMA StartJoinLedKeeps == IInv /\ StartJoinLed => IInv'
  <1> SUFFICES ASSUME IInv, StartJoinLed PROVE IInv'
    OBVIOUS
  <1> USE DEF IInv, StartJoinLed, poll, ghosts, astray
  <1>1. /\ led' \in {led, "JOINING"} /\ led' # "JOIN_SUCCESS"
        /\ "JOINING" \in Pattern
    BY LedMoves DEF TypeOK, Pattern
  <1>2. TypeOK'
    BY <1>1 DEF TypeOK
  <1>3. Accounted'
    BY DEF Accounted, Owed
  <1>4. Untouched' /\ ClearToAnswer' /\ PollsAsAsked'
    BY <1>1 DEF Untouched, ClearToAnswer, PollsAsAsked
  <1>5. WakeOvertaken'
    BY DEF WakeOvertaken, WakePending
  <1>6. JoiningIsBacked' /\ FlagOrRace'
    BY DEF JoiningIsBacked, FlagOrRace, JoinPending
  <1> QED
    BY <1>2, <1>3, <1>4, <1>5, <1>6

LEMMA StartJoinScheduleKeeps == IInv /\ StartJoinSchedule => IInv'
  <1> SUFFICES ASSUME IInv, StartJoinSchedule PROVE IInv'
    OBVIOUS
  <1> USE DEF IInv, StartJoinSchedule, poll
  <1>1. queue' \in Seq(Callbacks) /\ Len(queue') <= QueueCap /\ (WakeQueued' => WakeQueued)
    BY Scheduling DEF TypeOK, Callbacks
  <1>2. TypeOK'
    BY <1>1 DEF TypeOK, Callbacks
  <1>3. Accounted'
    BY DEF Accounted, Owed
  <1>4. Untouched' /\ ClearToAnswer' /\ PollsAsAsked'
    BY DEF Untouched, ClearToAnswer, PollsAsAsked
  <1>5. WakeOvertaken'
    BY <1>1 DEF WakeOvertaken, WakePending, WakeQueued
  <1>6. JoiningIsBacked' /\ FlagOrRace'
    <2>1. JoinPending' \/ refused'
      BY Scheduling, JoinPendingSplit DEF TypeOK, Callbacks, JoinPending, SteerQueued
    <2> QED
      BY <2>1 DEF JoiningIsBacked, FlagOrRace
  <1> QED
    BY <1>2, <1>3, <1>4, <1>5, <1>6

LEMMA FactoryResetKeeps == IInv /\ FactoryReset => IInv'
  <1> SUFFICES ASSUME IInv, FactoryReset PROVE IInv'
    OBVIOUS
  <1> USE DEF IInv, FactoryReset, poll, ghosts, astray
  <1>1. queue' \in Seq(Callbacks) /\ Len(queue') <= QueueCap /\ (WakeQueued' => WakeQueued)
    BY Scheduling DEF TypeOK, Callbacks
  <1>2. TypeOK'
    BY <1>1 DEF TypeOK, Callbacks
  <1>3. Accounted' /\ Untouched' /\ ClearToAnswer' /\ PollsAsAsked'
    BY DEF Accounted, Owed, Untouched, ClearToAnswer, PollsAsAsked
  <1>4. WakeOvertaken'
    BY <1>1 DEF WakeOvertaken, WakePending, WakeQueued
  <1>5. JoiningIsBacked' /\ FlagOrRace'
    <2>1. SteerQueued => SteerQueued'
      BY Scheduling DEF TypeOK, Callbacks
    <2> QED
      BY <2>1, BackedKept DEF JoinPending, SteerQueued
  <1> QED
    BY <1>2, <1>3, <1>4, <1>5

\* A wake begins on the network only.
LEMMA WakeCheckKeeps == IInv /\ WakeCheck => IInv'
  <1> SUFFICES ASSUME IInv, WakeCheck PROVE IInv'
    OBVIOUS
  <1> USE DEF IInv, WakeCheck, poll, ghosts, astray
  <1>1. TypeOK'
    BY DEF TypeOK
  <1>2. Accounted' /\ Untouched' /\ ClearToAnswer' /\ PollsAsAsked'
    BY DEF Accounted, Owed, Untouched, ClearToAnswer, PollsAsAsked
  <1>3. WakeOvertaken'
    BY DEF WakeOvertaken
  <1>4. JoiningIsBacked' /\ FlagOrRace'
    BY BackedKept DEF JoinPending
  <1> QED
    BY <1>1, <1>2, <1>3, <1>4

LEMMA WakeScheduleKeeps == IInv /\ WakeSchedule => IInv'
  <1> SUFFICES ASSUME IInv, WakeSchedule PROVE IInv'
    OBVIOUS
  <1> USE DEF IInv, WakeSchedule, poll, astray
  <1>1. queue' \in Seq(Callbacks) /\ Len(queue') <= QueueCap
    BY Scheduling DEF TypeOK, Callbacks
  <1>2. overtaken' \in BOOLEAN
    BY DEF TypeOK
  <1>3. TypeOK'
    BY <1>1, <1>2 DEF TypeOK, Callbacks
  <1>4. Accounted' /\ Untouched' /\ ClearToAnswer' /\ PollsAsAsked'
    BY DEF Accounted, Owed, Untouched, ClearToAnswer, PollsAsAsked
  <1>5. WakeOvertaken'
    BY WakePendingSplit DEF WakeOvertaken
  <1>6. JoiningIsBacked' /\ FlagOrRace'
    <2>1. SteerQueued => SteerQueued'
      BY Scheduling DEF TypeOK, Callbacks
    <2> QED
      BY <2>1, BackedKept DEF JoinPending, SteerQueued
  <1> QED
    BY <1>3, <1>4, <1>5, <1>6
-----------------------------------------------------------------------------
(***************************************************************************)
(* So does the ZBOSS thread.                                               *)
(***************************************************************************)

LEMMA RunSteerKeeps == IInv /\ RunSteer => IInv'
  <1> SUFFICES ASSUME IInv, RunSteer PROVE IInv'
    OBVIOUS
  <1> USE DEF IInv, ghosts, astray
  <1>1. /\ UNCHANGED <<user, joined, in_flight, led, turbo, joins, outcomes, overtaken, raced>>
        /\ refused' \in {refused, TRUE}
        /\ \/ stack' = "steering" /\ long_poll' = "default"
           \/ UNCHANGED <<stack, long_poll>>
    BY DEF RunSteer
  <1>2. queue' \in Seq(Callbacks) /\ Len(queue') <= QueueCap /\ (WakeQueued' => WakeQueued)
    BY Popping DEF RunSteer, TypeOK, Callbacks
  <1>3. TypeOK'
    <2>1. refused' \in BOOLEAN
      BY <1>1 DEF TypeOK
    <2>2. stack' \in {"init", "idle", "steering", "leaving"}
          /\ long_poll' \in {"default", "attribute"}
      BY <1>1 DEF TypeOK
    <2>3. UNCHANGED <<user, joined, in_flight, led, turbo, joins, outcomes, overtaken, raced>>
      BY <1>1
    <2> QED
      BY <1>2, <2>1, <2>2, <2>3 DEF TypeOK, Callbacks
  <1>4. Accounted' /\ Untouched' /\ ClearToAnswer' /\ PollsAsAsked'
    BY <1>1 DEF Accounted, Owed, Untouched, ClearToAnswer, PollsAsAsked
  <1>5. WakeOvertaken'
    BY <1>1, <1>2 DEF WakeOvertaken, WakePending, WakeQueued
  <1>6. JoiningIsBacked' /\ FlagOrRace'
    <2>1. \/ stack' = "steering"
          \/ stack' = stack /\ refused'
      BY DEF RunSteer
    <2> QED
      BY <1>1, <2>1 DEF JoiningIsBacked, FlagOrRace
  <1> QED
    BY <1>3, <1>4, <1>5, <1>6

\* The device parts while a wake may be pending, which is then overtaken.
LEMMA PartsOvertakes ==
  ASSUME IInv, Parts, WakePending' => WakePending
  PROVE  /\ joined' = FALSE /\ overtaken' \in BOOLEAN
         /\ WakeOvertaken' /\ PollsAsAsked'
  BY DEF IInv, TypeOK, Parts, WakeOvertaken, PollsAsAsked

LEMMA RunResetKeeps == IInv /\ RunReset => IInv'
  <1> SUFFICES ASSUME IInv, RunReset PROVE IInv'
    OBVIOUS
  <1> USE DEF IInv
  <1>1. /\ UNCHANGED <<user, in_flight, led, long_poll, turbo, joins, outcomes, refused, raced>>
        /\ stack' \in {stack, "leaving"}
    BY DEF RunReset, poll, astray
  <1>2. queue' \in Seq(Callbacks) /\ Len(queue') <= QueueCap /\ (WakeQueued' => WakeQueued)
    BY Popping DEF RunReset, TypeOK, Callbacks
  <1>3. WakePending' => WakePending
    BY <1>1, <1>2 DEF WakePending, WakeQueued
  <1>4. joined' = FALSE /\ overtaken' \in BOOLEAN /\ WakeOvertaken' /\ PollsAsAsked'
    BY <1>3, PartsOvertakes DEF RunReset
  <1>5. TypeOK'
    BY <1>1, <1>2, <1>4 DEF TypeOK, Callbacks
  <1>6. Accounted' /\ Untouched' /\ ClearToAnswer'
    BY <1>1 DEF Accounted, Owed, Untouched, ClearToAnswer
  <1>7. JoiningIsBacked' /\ FlagOrRace'
    <2>1. (SteerQueued => SteerQueued') /\ (stack = "steering" => stack' = "steering")
      BY Popping DEF RunReset, TypeOK, Callbacks
    <2> QED
      BY <1>1, <2>1, BackedKept DEF JoinPending, SteerQueued
  <1> QED
    BY <1>4, <1>5, <1>6, <1>7

LEMMA RunWakeKeeps == IInv /\ RunWake => IInv'
  <1> SUFFICES ASSUME IInv, RunWake PROVE IInv'
    OBVIOUS
  <1> USE DEF IInv
  <1>1. /\ UNCHANGED <<user, stack, joined, in_flight, led, long_poll, joins, outcomes, refused, raced>>
        /\ turbo' = TRUE /\ overtaken' = (overtaken /\ WakePending')
    BY DEF RunWake, astray
  <1>2. /\ queue' \in Seq(Callbacks) /\ Len(queue') <= QueueCap
        /\ WakeQueued
    BY Popping DEF RunWake, TypeOK, Callbacks
  <1>3. TypeOK'
    BY <1>1, <1>2 DEF TypeOK, Callbacks
  <1>4. Accounted' /\ Untouched' /\ ClearToAnswer' /\ PollsAsAsked'
    BY <1>1 DEF Accounted, Owed, Untouched, ClearToAnswer, PollsAsAsked
  <1>5. WakeOvertaken'
    BY <1>1, <1>2, WakePendingSplit DEF WakeOvertaken
  <1>6. JoiningIsBacked' /\ FlagOrRace'
    <2>1. SteerQueued => SteerQueued'
      BY Popping DEF RunWake, TypeOK, Callbacks
    <2> QED
      BY <1>1, <2>1, BackedKept DEF JoinPending, SteerQueued
  <1> QED
    BY <1>3, <1>4, <1>5, <1>6

\* What an answer makes of the LED: itself, unless the hold pattern is on it.
LEMMA AnswerShows ==
  ASSUME NEW a \in (Pattern \cup {"NONE"}) \ {"FATAL"}, NEW s \in {"JOIN_SUCCESS", "JOIN_FAIL"}
  PROVE  LET shown == Requested(Cancelled(a, "JOINING"), s)
         IN  /\ shown \in Pattern \ {"FATAL"} /\ shown # "JOINING"
             /\ shown # s => a = "LONG_PRESS_HOLD" \/ (a = "JOIN_SUCCESS" /\ s = "JOIN_FAIL")
  BY DEF Requested, Cancelled, Prio, Pattern

LEMMA SteeringSignalKeeps == IInv /\ SteeringSignal => IInv'
  <1> SUFFICES ASSUME IInv, SteeringSignal PROVE IInv'
    OBVIOUS
  <1> USE DEF IInv
  <1>1. /\ UNCHANGED <<user, queue, joins, refused>> /\ stack = "steering" /\ stack' = "idle"
        /\ joined' \in BOOLEAN /\ raced' = (raced \/ user = "flag")
        /\ long_poll' \in {long_poll, "attribute"} /\ turbo' \in {turbo, TRUE}
        /\ joined' => long_poll' = "attribute"
    BY DEF SteeringSignal, Resolve, Parts, ApplySleepyPollIntervals, poll
  <1>2. WakePending' => WakePending
    BY <1>1 DEF WakePending
  <1>3. overtaken' \in BOOLEAN /\ WakeOvertaken' /\ PollsAsAsked'
    <2>1. CASE joined' = TRUE /\ UNCHANGED overtaken
      BY <1>1, <2>1 DEF TypeOK, WakeOvertaken, PollsAsAsked
    <2>2. CASE Parts
      BY <1>2, <2>2, PartsOvertakes
    <2> QED
      BY <2>1, <2>2 DEF SteeringSignal, Resolve
  <1>4. CASE in_flight
    <2>1. PICK s \in {"JOIN_SUCCESS", "JOIN_FAIL"} :
            led' = Requested(Cancelled(led, "JOINING"), s)
      BY <1>4 DEF SteeringSignal
    <2>2. led' \in Pattern \ {"FATAL"} /\ led' # "JOINING"
      BY <2>1, AnswerShows DEF TypeOK, ClearToAnswer
    <2>3. in_flight' = FALSE /\ outcomes' = outcomes + 1
      BY <1>4 DEF SteeringSignal
    <2>4. TypeOK'
      <3>1. turbo' \in BOOLEAN /\ long_poll' \in {"default", "attribute"}
        BY <1>1 DEF TypeOK
      <3>2. outcomes' \in Nat /\ joins' \in 0..MaxJoins
        BY <1>1, <2>3 DEF TypeOK
      <3>3. raced' \in BOOLEAN
        BY <1>1 DEF TypeOK
      <3> QED
        BY <1>1, <1>3, <2>2, <2>3, <3>1, <3>2, <3>3 DEF TypeOK
    <2>5. Accounted' /\ joins # 0
      BY <1>1, <1>4, <2>3 DEF Accounted, Owed, TypeOK
    <2>6. Untouched' /\ ClearToAnswer'
      BY <1>1, <2>2, <2>3, <2>5 DEF Untouched, ClearToAnswer
    <2>7. JoiningIsBacked' /\ FlagOrRace'
      BY <1>1, <2>2, <2>3 DEF JoiningIsBacked, FlagOrRace
    <2> QED
      BY <1>3, <2>4, <2>5, <2>6, <2>7
  <1>5. CASE ~in_flight
    <2>1. UNCHANGED <<in_flight, led, outcomes>>
      BY <1>5 DEF SteeringSignal
    <2>2. TypeOK'
      <3>1. raced' \in BOOLEAN
        BY <1>1 DEF TypeOK
      <3> QED
        BY <1>1, <1>3, <2>1, <3>1 DEF TypeOK
    <2>3. Accounted' /\ Untouched' /\ ClearToAnswer'
      BY <1>1, <2>1 DEF Accounted, Owed, Untouched, ClearToAnswer
    <2>4. JoiningIsBacked' /\ FlagOrRace'
      BY <1>1, <1>5, <2>1 DEF JoiningIsBacked, FlagOrRace
    <2> QED
      BY <1>3, <2>2, <2>3, <2>4
  <1> QED
    BY <1>4, <1>5

LEMMA RebootSignalKeeps == IInv /\ RebootSignal => IInv'
  <1> SUFFICES ASSUME IInv, RebootSignal PROVE IInv'
    OBVIOUS
  <1> USE DEF IInv
  <1>1. /\ UNCHANGED <<user, queue, in_flight, led, joins, outcomes, overtaken, refused, raced>>
        /\ stack' = "idle" /\ joined' \in {joined, TRUE}
        /\ long_poll' \in {long_poll, "attribute"} /\ turbo' \in {turbo, TRUE}
        /\ joined' => long_poll' = "attribute"
    BY DEF RebootSignal, ApplySleepyPollIntervals, poll, ghosts, astray
  <1>2. TypeOK'
    BY <1>1 DEF TypeOK
  <1>3. Accounted' /\ Untouched' /\ ClearToAnswer' /\ PollsAsAsked'
    BY <1>1 DEF Accounted, Owed, Untouched, ClearToAnswer, PollsAsAsked
  <1>4. WakeOvertaken'
    <2>1. (WakePending' => WakePending) /\ (overtaken => overtaken')
      BY <1>1 DEF WakePending
    <2>2. ~joined' => ~joined
      BY <1>1 DEF TypeOK
    <2> QED
      BY <2>1, <2>2 DEF WakeOvertaken
  <1>5. JoiningIsBacked' /\ FlagOrRace'
    <2>1. stack # "steering"
      BY DEF RebootSignal
    <2> QED
      BY <1>1, <2>1, BackedKept DEF JoinPending
  <1> QED
    BY <1>2, <1>3, <1>4, <1>5

LEMMA LeaveSignalKeeps == IInv /\ LeaveSignal => IInv'
  <1> SUFFICES ASSUME IInv, LeaveSignal PROVE IInv'
    OBVIOUS
  <1> USE DEF IInv
  <1>1. /\ UNCHANGED <<user, queue, in_flight, led, long_poll, turbo, joins, outcomes>>
        /\ stack' = "idle" /\ stack # "steering" /\ UNCHANGED <<refused, raced>>
    BY DEF LeaveSignal, poll, astray
  <1>2. WakePending' => WakePending
    BY <1>1 DEF WakePending
  <1>3. joined' = FALSE /\ overtaken' \in BOOLEAN /\ WakeOvertaken' /\ PollsAsAsked'
    BY <1>2, PartsOvertakes DEF LeaveSignal
  <1>4. TypeOK'
    BY <1>1, <1>3 DEF TypeOK
  <1>5. Accounted' /\ Untouched' /\ ClearToAnswer'
    BY <1>1 DEF Accounted, Owed, Untouched, ClearToAnswer
  <1>6. JoiningIsBacked' /\ FlagOrRace'
    BY <1>1, BackedKept DEF JoinPending
  <1> QED
    BY <1>3, <1>4, <1>5, <1>6
-----------------------------------------------------------------------------
(***************************************************************************)
(* And what goes on around them.                                           *)
(***************************************************************************)

LEMMA StackKeeps == IInv /\ (StackSteers \/ TurboEnds) => IInv'
  <1> SUFFICES ASSUME IInv, StackSteers \/ TurboEnds PROVE IInv'
    OBVIOUS
  <1> USE DEF IInv, ghosts, astray
  <1>1. /\ UNCHANGED <<user, queue, joined, in_flight, led, joins, outcomes, overtaken, refused, raced>>
        /\ turbo' \in {turbo, FALSE}
        /\ \/ stack' = "steering" /\ long_poll' = "default"
           \/ UNCHANGED <<stack, long_poll>>
    BY DEF StackSteers, TurboEnds
  <1>2. TypeOK'
    <2>1. turbo' \in BOOLEAN
      BY <1>1 DEF TypeOK
    <2>2. stack' \in {"init", "idle", "steering", "leaving"}
          /\ long_poll' \in {"default", "attribute"}
      BY <1>1 DEF TypeOK
    <2>3. UNCHANGED <<user, queue, joined, in_flight, led, joins, outcomes, overtaken, refused,
                      raced>>
      BY <1>1
    <2> QED
      BY <2>1, <2>2, <2>3 DEF TypeOK
  <1>3. Accounted' /\ Untouched' /\ ClearToAnswer' /\ PollsAsAsked'
    BY <1>1 DEF Accounted, Owed, Untouched, ClearToAnswer, PollsAsAsked
  <1>4. WakeOvertaken'
    BY <1>1 DEF WakeOvertaken, WakePending
  <1>5. JoiningIsBacked' /\ FlagOrRace'
    <2>1. stack = "steering" => stack' = "steering"
      BY DEF StackSteers, TurboEnds
    <2> QED
      BY <1>1, <2>1, BackedKept DEF JoinPending
  <1> QED
    BY <1>2, <1>3, <1>4, <1>5

LEMMA LedKeeps == IInv /\ (OthersLight \/ PatternEnds) => IInv'
  <1> SUFFICES ASSUME IInv, OthersLight \/ PatternEnds PROVE IInv'
    OBVIOUS
  <1> USE DEF IInv, poll, ghosts, astray
  <1>1. UNCHANGED <<user, queue, stack, joined, in_flight, long_poll, turbo, joins,
                    outcomes, overtaken, refused, raced>>
    BY DEF OthersLight, PatternEnds
  <1>2. led' \in {led, "NONE"} \cup Others
    BY LedMoves DEF OthersLight, PatternEnds, TypeOK, Others, Pattern
  <1>3. TypeOK'
    BY <1>1, <1>2 DEF TypeOK, Others, Pattern
  <1>4. Accounted' /\ Untouched' /\ ClearToAnswer' /\ PollsAsAsked'
    BY <1>1, <1>2 DEF Accounted, Owed, Untouched, ClearToAnswer, PollsAsAsked, Others
  <1>5. WakeOvertaken'
    BY <1>1 DEF WakeOvertaken, WakePending
  <1>6. JoiningIsBacked' /\ FlagOrRace'
    BY <1>1, <1>2, BackedKept DEF JoinPending, Others
  <1> QED
    BY <1>3, <1>4, <1>5, <1>6

LEMMA NextIInv == IInv /\ [Next]_vars => IInv'
  <1> SUFFICES ASSUME IInv, [Next]_vars PROVE IInv'
    OBVIOUS
  <1>1. CASE Presses
    BY <1>1, PressJoinKeeps, FactoryResetKeeps, WakeCheckKeeps DEF Presses
  <1>2. CASE UserStep
    BY <1>2, StartJoinFlagKeeps, StartJoinLedKeeps, StartJoinScheduleKeeps,
       WakeScheduleKeeps DEF UserStep
  <1>3. CASE Callback
    BY <1>3, RunSteerKeeps, RunResetKeeps, RunWakeKeeps DEF Callback
  <1>4. CASE Signal
    BY <1>4, SteeringSignalKeeps, RebootSignalKeeps, LeaveSignalKeeps DEF Signal
  <1>5. CASE StackSteers \/ TurboEnds \/ OthersLight \/ PatternEnds
    BY <1>5, StackKeeps, LedKeeps
  <1>6. CASE UNCHANGED vars
    BY <1>6 DEF vars, poll, ghosts, astray, JoiningIsBacked, FlagOrRace, JoinPending, IInv, TypeOK, Accounted, Owed, Untouched,
                ClearToAnswer, PollsAsAsked, WakeOvertaken, WakePending
  <1> QED
    BY <1>1, <1>2, <1>3, <1>4, <1>5, <1>6 DEF Next

LEMMA Invariance == Spec => []IInv
  BY InitIInv, NextIInv, PTL DEF Spec
-----------------------------------------------------------------------------
\* The threads' positions, the queue and the LED stay in their ranges.
THEOREM TypeCorrect == Spec => []TypeOK
  <1>1. IInv => TypeOK
    BY DEF IInv
  <1> QED
    BY <1>1, Invariance, PTL

\* zigbee_app.c:371-377: a join is answered once at most, and a device nobody
\* touched shows no join.
THEOREM OneAnswer == Spec => []OneOutcomePerJoin
  <1>1. IInv => OneOutcomePerJoin
    BY DEF IInv, Accounted, Owed, Untouched, OneOutcomePerJoin, TypeOK
  <1> QED
    BY <1>1, Invariance, PTL

\* zigbee_app.c:398-412: on a network, the poll interval is the attribute's.
THEOREM PollsAsTold == Spec => []PollsAsAsked
  <1>1. IInv => PollsAsAsked
    BY DEF IInv
  <1> QED
    BY <1>1, Invariance, PTL

\* zigbee_app.c:371-378: the flag has a steering to wait for unless one was refused,
\* and blue blinks with the flag but for the one race.
THEOREM JoiningBacked == Spec => []JoiningIsBacked
  <1>1. IInv => JoiningIsBacked
    BY DEF IInv
  <1> QED
    BY <1>1, Invariance, PTL

\* zigbee_app.c:603-612: the answer that is given is the one that is seen.
THEOREM AnswerSeen == Spec => AnswerIsVisible
  <1> DEFINE Answered == outcomes' # outcomes
             Seen == \/ led' = IF joined' THEN "JOIN_SUCCESS" ELSE "JOIN_FAIL"
                     \/ led = "LONG_PRESS_HOLD" \/ user = "flag"
  <1>1. IInv /\ [Next]_vars => [Answered => Seen]_vars
    <2> SUFFICES ASSUME IInv, Next, Answered, user # "flag", led # "LONG_PRESS_HOLD"
                 PROVE  led' = IF joined' THEN "JOIN_SUCCESS" ELSE "JOIN_FAIL"
      OBVIOUS
    <2>1. SteeringSignal /\ in_flight
      BY DEF Next, Presses, PressJoin, FactoryReset, WakeCheck, UserStep, StartJoinFlag,
             StartJoinLed, StartJoinSchedule, WakeSchedule, Callback, RunSteer, RunReset,
             RunWake, Signal, SteeringSignal, RebootSignal, LeaveSignal, StackSteers,
             TurboEnds, OthersLight, PatternEnds, ghosts, astray
    <2>2. /\ led \in (Pattern \cup {"NONE"}) \ {"FATAL"}
          /\ led # "JOIN_SUCCESS"
      BY <2>1 DEF IInv, TypeOK, ClearToAnswer
    <2> DEFINE answer == IF joined' THEN "JOIN_SUCCESS" ELSE "JOIN_FAIL"
    <2>3. led' = Requested(Cancelled(led, "JOINING"), answer)
      BY <2>1 DEF SteeringSignal
    <2>4. answer \in {"JOIN_SUCCESS", "JOIN_FAIL"}
      OBVIOUS
    <2> HIDE DEF answer
    <2>5. led' = answer
      BY <2>2, <2>3, <2>4, AnswerShows
    <2> QED
      BY <2>5 DEF answer
  <1> QED
    BY <1>1, Invariance, PTL DEF Spec, AnswerIsVisible

\* zigbee_app.h:56-58: a turbo-poll window without a parent opens only for a wake
\* that the device's parting overtook.
THEOREM TurboHasParent == Spec => NoStrayTurbo
  <1>1. IInv /\ [Next]_vars => [~turbo /\ turbo' /\ ~joined' => overtaken]_vars
    <2> SUFFICES ASSUME IInv, Next, ~turbo, turbo', ~joined' PROVE overtaken
      OBVIOUS
    <2>1. RunWake
      BY DEF Next, Presses, PressJoin, FactoryReset, WakeCheck, UserStep, StartJoinFlag,
             StartJoinLed, StartJoinSchedule, WakeSchedule, Callback, RunSteer, RunReset,
             Signal, SteeringSignal, RebootSignal, LeaveSignal, StackSteers, TurboEnds,
             OthersLight, PatternEnds, ApplySleepyPollIntervals, poll
    <2>2. WakeQueued /\ ~joined
      BY <2>1, Popping DEF RunWake, IInv, TypeOK, Callbacks
    <2> QED
      BY <2>2, WakePendingSplit DEF IInv, WakeOvertaken
  <1> QED
    BY <1>1, Invariance, PTL DEF Spec, NoStrayTurbo
=============================================================================
