SPECIFICATION LockSpec
CONSTANTS
  Runs = {r1, r2, r3, r4}
  NoFile = NoFile
SYMMETRY Symmetry
INVARIANT OneRunUntilAnExit
INVARIANT NoStaleFile
CHECK_DEADLOCK FALSE
