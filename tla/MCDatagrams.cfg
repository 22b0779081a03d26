CONSTANTS
  Transformers = {"none", "fragmentationShaper", "sequenceShaper", "protean"}
  Lengths <- MCLengths
  Injected <- MCInjected
  maxLength = 80
  TARGET_DELAY = 0
  BASE_INTERVAL = 1
  TRACED = 2
  MaxTime = 4
  MaxFaults = 2
SPECIFICATION DatagramSpec
INVARIANTS DatagramTypeOK StreamRestored DropsAreEarned
CHECK_DEADLOCK FALSE
