\* Every kind of client and host; two buffers of data each way.
CONSTANTS
  Clients = {"good", "badAuth", "badRequest", "badCommand"}
  Hosts = {"good", "absent", "forbidden", "named"}
  MaxData = 2
SPECIFICATION FairSpec
INVARIANTS TypeOK StreamsComplete PauseFollowsOverflow
PROPERTIES ReleasedInTheEnd
CHECK_DEADLOCK FALSE
