SPECIFICATION Spec
CONSTANTS
  NWorkers = 2
  NProjects = 2
  NVms = 3
  NGateways = 3
  MaxGwPerRouter = 2
  MaxRetry = 2
  HostCounts = {4, 5}
  NameRoom = 3
  MaxFaults = 1
INVARIANT AddressesAreUnique
INVARIANT VmsAreConnected
INVARIANT NodesShareTheLoad
INVARIANT NothingIsLeftOver
PROPERTY OperationsEnd
CHECK_DEADLOCK FALSE
