SPECIFICATION Spec
CONSTANTS
  Namespaces = {n1, n2}
  AZs = {az1, az2}
  FirstAz = az1
  Ports = {p1, p2}
  Families <- SingleStack
  NBackendLists = 2
  MaxSubs = 2
  MaxLost = 1
SYMMETRY Symmetry
INVARIANT TypeOK
INVARIANT PoliciesApplyToPorts
INVARIANT GroupsFollowPorts
INVARIANT AddressesReachEveryAz
INVARIANT SubPoliciesNameTheirSets
INVARIANT NamespaceVipsDisjoint
CHECK_DEADLOCK FALSE
