SPECIFICATION FairSpec
CONSTANTS
  Chassis = {c1, c2}
  CfgMax = 2
  MaxVer = 1
  NoSnap = NoSnap
INVARIANT TypeOK
INVARIANT HvSyncCoversChassis
INVARIANT SyncCoversSouthbound
PROPERTY SyncStartsIncomplete
PROPERTY SyncReturns
CHECK_DEADLOCK FALSE
