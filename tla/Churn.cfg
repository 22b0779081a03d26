SPECIFICATION FairSpec
CONSTANTS
  Peers = {"a", "b"}
  Initiators = {"a"}
  Rivals = {"b"}
  Kinds = {"host", "srflx"}
  Ways = {TRUE, FALSE}
  MaxCandidates = 2
  MaxEvents = 1
INVARIANTS TypeOK SignalsComplete PipesAgree
PROPERTIES Ends
CHECK_DEADLOCK FALSE
