SPECIFICATION FairSpec
CONSTANTS
  Modulus = 16
  Capacity = 4
  MaxRollback = 4
  StartFrame = 0
  Buttons = {0, 1}
  NeutralButtons = 0
  SimulateFails <- NeverFails
  SequenceModulus = 8
  WindowWidth = 4
  FrameCount = 3
  Script <- Alternating
  Redundancy = 3
  DrainBatch = 2
  FinalDrain = 2
  Variants <- PerhapsFaulty
  Hits <- AfterAttack
  Mismatches <- PerhapsMismatch
  MayTimeOut = FALSE
  NetworkFaults = {}
  FaultLimit = 0
  ChannelCapacity = 2
INVARIANTS
  NobodyFinishesApart
PROPERTIES
  BothFinish
  DifferenceIsFound
CHECK_DEADLOCK FALSE
