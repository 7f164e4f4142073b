SPECIFICATION Spec
CONSTANTS
  Latency = 1
  Jitter = 0
  LossPercent = 0
  ReorderPercent = 10
  DuplicatePercent = 10
  BurstPercent = 5
  MaxQueuePackets = 3
  MaxQueueBytes = 5
  Bandwidth = 3
  MaxPacketAge = 2
  DropsOldest = TRUE
  MaxPacketBytes = 3
  LastTick = 3
  Sizes = {1, 3, 4}
  SendLimit = 3
INVARIANTS
  PacketsAreConserved
  DeliveredInTime
PROPERTIES
  RefusedOnlyWhatNeverFits
  OnlySmallerOvertakes
CHECK_DEADLOCK FALSE
