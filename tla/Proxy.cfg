SPECIFICATION FairSpec
CONSTANTS
  Calls = {"listen", "close"}
  MaxDiscards = 1
  MaxConnections = 1
  SESSION_LIMIT = 2
  MaxElsewhere = 1
  Clients = 2
  Labels = {l1}
INVARIANTS TypeOK LimitsCountTheLiving
PROPERTIES ReleasesAll
CHECK_DEADLOCK FALSE
