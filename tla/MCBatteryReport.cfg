SPECIFICATION Spec
CONSTANTS
  Readings = {25500}
  EmptyMv = 2000
  FullMv = 3000
  QueueCap = 2
  MaxSamples = 5
INVARIANTS ReportCarriesItsBattery PairNeverFarApart UnknownMeansFailed
