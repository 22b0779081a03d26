CONSTANTS
  Peers = {a, b}
  Initiators = {a, b}
  LowHash = a
  MaxCandidates = 1
  MaxEvents = 1
  MaxTieEvents = 0
  a = a
  b = b
SPECIFICATION FairSpec
INVARIANTS TypeOK CandidatesInOrder
PROPERTIES NoConnectionAfterClose ComesToAnEnd
CHECK_DEADLOCK FALSE
