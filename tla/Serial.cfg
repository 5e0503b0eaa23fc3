CONSTANTS
  Bytes = {b1, b2}
  RxSize = 2
  TxSize = 3
  MaxLen = 4
SPECIFICATION FairSpec
INVARIANTS TypeOK RingsOK TestStillHolds NoLostWakeup
PROPERTIES RxIsChannel TxIsChannel TxFlows
