\* One kind of client and host, and no data: the end of the client's socket is enough.
CONSTANTS
  Clients = {"good"}
  Hosts = {"good"}
  MaxData = 0
SPECIFICATION FairSpec
PROPERTIES DocumentedStop
CHECK_DEADLOCK FALSE
