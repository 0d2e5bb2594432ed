SPECIFICATION FairSpec
CONSTANTS
  NProjects = 3
  BatchSize = 2
  NLearn = 1
  NAdvertise = 1
  Chassis = {1, 2}
  GwChassis <- MCGwChassis
  MaxOthers <- MCMaxOthers
  NoHost = NoHost
CHECK_DEADLOCK FALSE
INVARIANT BatchesCoverProjects
INVARIANT FirstWaitCoversBatch
INVARIANT UndisturbedWaitIsRight
PROPERTY RunEnds
