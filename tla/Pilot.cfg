CONSTANTS
  Half = 7
  TimeMax = 48
  MaxCnt = 12
  LinkTimeout = 4
  Lead = 1
  Sticks = {"corners", "down", "center", "high", "level"}
  ArmHold = 2
  DisarmHold = 1
  Smooth = 2
  LooksBetween = 2
SPECIFICATION PilotSpec
INVARIANTS PilotTypeOK LinkWatched GestureWorks
PROPERTIES HeldToSwitch ReleasedBetween
