SPECIFICATION LockSpec
CONSTANTS
  Runs = {r1, r2, r3}
  NoFile = NoFile
SYMMETRY Symmetry
INVARIANT OneRunAtATime
CHECK_DEADLOCK FALSE
