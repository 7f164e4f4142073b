SPECIFICATION Spec
CONSTANTS
  Modulus = 16
  Capacity = 8
  MaxRollback = 2
  StartFrame = 14
  Buttons = {0, 1}
  NeutralButtons = 0
  SimulateFails <- NeverFails
  LocalPeer = "a"
  LocalButtons = {0, 1}
  RemoteMayChange = FALSE
  MaxLead = 1
  FrameLimit = 4
  RollbackLimit = 4
INVARIANTS
  TypeOK
  OneTimeline
  HashesAreConfirmed
  PredictionsAreFresh
PROPERTIES
  ConfirmedIsFinal
  LostFrameStaysLost
