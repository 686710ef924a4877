SPECIFICATION FairSpec
CONSTANTS
  Period = 2
  QueueCap = 2
  MaxTotal = 4
  MaxOthers = 2
  LowMod = 2
  HighMod = 2
INVARIANTS NoLostUpdate ShadowOrigin
PROPERTIES FallsOnlyByTick EventuallyFresh
