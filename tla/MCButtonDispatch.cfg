SPECIFICATION FairSpec
CONSTANTS
  ShortMax = 2
  LongMin = 3
  MaxPresses = 3
  HeldThroughBoot = FALSE
INVARIANTS ActionsNeedPresses HoldIsShown
PROPERTY LastPressHonoured
