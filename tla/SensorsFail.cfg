CONSTANTS
  Accels = {a1, a2}
  CollectMax = 2
  Ratio = 3
SPECIFICATION SensorsSpec
INVARIANT FailedReadUnused
