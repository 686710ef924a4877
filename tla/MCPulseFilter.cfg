SPECIFICATION Spec
CONSTANTS
  Source = {led, bench}
  Widths = {1, 2, 4}
  TimerMod = 8
  CounterMod = 3
  MaxAge = 9
INVARIANTS TypeOK UndisturbedPulse LateNotNever ClockOnlyForPulse
PROPERTY GateSpec
