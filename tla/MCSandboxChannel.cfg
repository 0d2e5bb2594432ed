SPECIFICATION Spec
CONSTANTS
  c1 = c1
  c2 = c2
  c3 = c3
  Cmds <- MCCmds
  Checked <- MCChecked
  Fails <- MCFails
  Unterminated <- MCUnterminated
  Trickling <- MCTrickling
  MaxShells = 3
  NoCmd = NoCmd
  Podman = Podman
  Hello = Hello
INVARIANT TypeOK
INVARIANT OutputIsOwn
PROPERTY CallEnds
PROPERTY ImplementsRemoteCall
CHECK_DEADLOCK FALSE
