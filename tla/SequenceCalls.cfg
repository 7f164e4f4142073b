SPECIFICATION WindowSpec
CONSTANTS
  SequenceModulus = 8
  WindowWidth = 3
  FirstNumber = 2
  LastNumber = 13
INVARIANTS
  VerdictsAreExact
