SPECIFICATION Spec
CONSTANTS
  Protocols = {tcp, udp}
  Workers = {w1, w2}
  StaticHost = s
  NConfig = 2
  NStatic = 3
  MaxBatch = 2
  MaxVips = 5
  MaxFailures = 2
SYMMETRY Symmetry
INVARIANT TypeOK
INVARIANT RowsAreAsRemembered
INVARIANT OnlyStaticVipsRemain
PROPERTY ProvisionedVipsAreNew
CHECK_DEADLOCK FALSE
