CONSTANTS
  t1 = t1
  t2 = t2
  s1 = s1
  s2 = s2
  s3 = s3
  d1 = d1
  d2 = d2
  Threads <- MCThreads
  SessionIds <- MCSessionIds
  DriverIds <- MCDriverIds
  MoveLimit = 2
SYMMETRY MCSymmetry
SPECIFICATION HandlesSpec
INVARIANTS
  OneBorrower
  UntouchedIsFresh
PROPERTY
  BorrowedMovesWithItsDriver
