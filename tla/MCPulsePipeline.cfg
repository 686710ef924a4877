SPECIFICATION FairSpec
CONSTANTS
  HwMod = 4
  MaxDelta = 2
  Interval = 2
  MaxPulses = 5
  MaxBoots = 3
INVARIANTS TypeOK Conservation LossBound FirstChangeSaved NoPhantomEnergy
PROPERTIES StoredNeverDecreases MeterSpec EventuallyDurable
CHECK_DEADLOCK FALSE
