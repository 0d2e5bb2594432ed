SPECIFICATION Spec
CONSTANTS
  a1 = a1
  a2 = a2
  v = v
  Ports <- MCPorts
  Passive <- MCPassive
  Procs = {q1, q2}
  NoPort = NoPort
SYMMETRY Symmetry
INVARIANT TypeOK
INVARIANT LeakIsReported
INVARIANT ProcessesAreTracked
INVARIANT PortsArePlumbed
CHECK_DEADLOCK FALSE
