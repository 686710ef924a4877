SPECIFICATION FairSpec
CONSTANTS
  ShortMax = 2
  LongMin = 3
  MaxPresses = 2
  HeldThroughBoot = FALSE
PROPERTY ReleaseAborts
