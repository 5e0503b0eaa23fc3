CONSTANTS
  Half = 32
  TimeMax = 1023
  Rates <- TwoRates
  Second = 5
  Long = 5
  MaxCnt = 70
SPECIFICATION Spec
INVARIANTS TypeOK KeepsRate NoTaskStarves
