SPECIFICATION Spec
CONSTANTS
  ShortMax = 2
  LongMin = 3
  MaxPresses = 2
  HeldThroughBoot = TRUE
INVARIANT BootHoldKeepsJoin
