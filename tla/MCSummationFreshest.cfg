SPECIFICATION Spec
CONSTANTS
  Period = 2
  QueueCap = 2
  MaxTotal = 4
  MaxOthers = 0
  LowMod = 4
  HighMod = 2
INVARIANT FreshestTotalWins
