SPECIFICATION FairSpec
CONSTANTS
  JoinFailTicks = 5
  EraseConfirmTicks = 7
  MaxFlashCount = 5
INVARIANTS
  TickNeverStale
  TickMatchesPattern
  DarkWhenIdle
  BlinkCounts
  FatalCode
PROPERTIES
  ArbiterSpec
  TransientsEnd
