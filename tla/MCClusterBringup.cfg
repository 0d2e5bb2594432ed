SPECIFICATION Spec
CONSTANTS
  NCentral = 3
  NRelays = 1
  NWorkers = 3
  MaxAz = 3
  NetSize = 10
  RaftElectionTo = 2
  NPods = 1
  NStartup = 1
  NDensity = 4
  ExtIterations <- MCExtIterations
  MaxRetry = 2
  MaxFaults = 1
INVARIANT AddressesAreUnique
INVARIANT ReportsAreTrue
INVARIANT VerdictsMatch
INVARIANT RunIsAsConfigured
PROPERTY RunEnds
CHECK_DEADLOCK FALSE
