SPECIFICATION FairSpec
CONSTANTS
  FrameCount = 2
  TailSteps = 2
  FixedStep = 2
  MaxCatchUp = 2
  Corrections = {{}, {"a"}}
  Buttons = {"attack"}
  Deltas = {1, 5}
  WarmupTicks = 1
  CaptureModes = {"interactive"}
INVARIANTS
  ExitMatchesEvidence
  RunsAreWhole
PROPERTIES
  PressesReachTheGame
  SmokeTestEnds
CHECK_DEADLOCK FALSE
