\* Two channels, three sessions and a message; one failure and one death.
CONSTANTS
  maxChannels = 3
  MaxOpens = 3
  MaxData = 1
  MaxFailures = 1
  MaxDeaths = 1
SPECIFICATION FairSpec
INVARIANTS TypeOK ReuseIsClean
PROPERTIES CloseIsClean
CHECK_DEADLOCK FALSE
