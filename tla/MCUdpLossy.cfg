SPECIFICATION Spec
CONSTANTS
  Modulus = 8
  Capacity = 4
  MaxRollback = 4
  StartFrame = 0
  Buttons = {0, 1}
  NeutralButtons = 0
  SimulateFails <- NeverFails
  SequenceModulus = 8
  WindowWidth = 4
  FrameCount = 2
  Script <- Alternating
  Redundancy = 2
  DrainBatch = 2
  FinalDrain = 1
  Variants <- NoFault
  Hits <- Never
  Mismatches <- PerhapsMismatch
  MayTimeOut = TRUE
  NetworkFaults = {"lose", "duplicate", "reorder"}
  FaultLimit = 1
  ChannelCapacity = 2
INVARIANTS
  ConfirmedGameIsTheScript
  SuccessIsMutual
  NoFalseDesync
PROPERTIES
  GameIsLockstep
CHECK_DEADLOCK FALSE
