SPECIFICATION Spec
CONSTANTS
  Modulus = 16
  Capacity = 4
  MaxRollback = 2
  StartFrame = 0
  Buttons = {0, 1}
  NeutralButtons = 0
  SimulateFails <- NeverFails
  LocalPeer = "b"
  LocalButtons = {1}
  RemoteMayChange = TRUE
  MaxLead = 1
  FrameLimit = 5
  RollbackLimit = 1
INVARIANTS
  ConfirmedIsActual
  MispredictionIsPending
  CorrectionIsPossible
