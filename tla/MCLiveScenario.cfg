SPECIFICATION FairSpec
CONSTANTS
  Modulus = 8
  Capacity = 4
  MaxRollback = 2
  StartFrame = 0
  Buttons = {0, 1}
  NeutralButtons = 0
  SimulateFails <- NeverFails
  SequenceModulus = 16
  WindowWidth = 4
  Latency = 0
  Jitter = 1
  LossPercent = 10
  ReorderPercent = 0
  DuplicatePercent = 0
  BurstPercent = 0
  MaxQueuePackets = 3
  MaxQueueBytes = 240
  Bandwidth = 9600
  MaxPacketAge = 5
  DropsOldest = FALSE
  MaxPacketBytes = 1200
  LastTick = 255
  FrameCount = 3
  TailTicks = 1
  DrainTicks = 1
  Script <- Alternating
  InvalidButtons = {32}
  Redundancy = 2
  CheckpointEvery = 2
  Variants <- PerhapsFaulty
  Hits <- AfterAttack
INVARIANTS
  HonestRunsOnlyTimeOut
  SuccessIsGenuine
  DiagnosticIsEarliest
PROPERTIES
  RollbacksAreReported
  EveryRunEnds
