SPECIFICATION Spec
CONSTANTS
  Values = {1, 2, 3, 4}
  DivisorMin = 2
  DivisorMax = 3
  WidthMin = 2
  WidthMax = 3
  DefaultDivisor = 2
  DefaultWidth = 3
  None = None
INVARIANT WidthReadbackIsTrue
