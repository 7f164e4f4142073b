SPECIFICATION Spec
CONSTANTS
  Modulus = 16
  Capacity = 8
  MaxRollback = 2
  StartFrame = 0
  Buttons = {0, 1}
  NeutralButtons = 0
  SimulateFails <- FailsOnAttack
  LocalPeer = "a"
  LocalButtons = {0, 1}
  RemoteMayChange = FALSE
  MaxLead = 1
  FrameLimit = 3
  RollbackLimit = 2
INVARIANTS
  ConfirmedIsActual
CHECK_DEADLOCK FALSE
