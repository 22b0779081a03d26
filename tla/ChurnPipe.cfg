SPECIFICATION FairPipeSpec
CONSTANTS
  Interfaces = {i1, i2}
  Ports = {1, 2}
  Remotes = {r1}
  DelayLimit = 20
  MaxPublic = 2
  MaxFailures = 1
INVARIANTS PipeTypeOK MirrorsComplete ShutdownTakesAll
PROPERTIES PipeProgress
CHECK_DEADLOCK FALSE
