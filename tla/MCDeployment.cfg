SPECIFICATION DeploySpec
CONSTANTS
  NCentral = 1
  NRelays = 1
  NWorkers = 3
  MaxAz = 2
  NetSize = 0
  Configs <- MCConfigs
  NCentralHosts = 2
  NWorkerHosts = 2
  Prefix = "ovn-scale"
  MaxRuns = 2
CHECK_DEADLOCK FALSE
INVARIANT NodesAreWhereDeployed
