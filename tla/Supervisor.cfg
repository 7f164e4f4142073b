CONSTANTS
  Games = {"g1", "g2"}
  StuckFiles = {{}, {"ready"}, {"diagnostic"}}
  CrashLimit = 1
SPECIFICATION FairSpec
INVARIANTS
  SuccessHasEvidence
  NoChildIsLeft
  DesyncVerdictIsRight
PROPERTY
  DemoReturns
CHECK_DEADLOCK FALSE
