\* Three events, three handlers that may re-enter the queue and throw.
CONSTANTS
  MaxEvents = 3
  MaxSets = 3
  MaxDepth = 5
SPECIFICATION Spec
INVARIANTS TypeOK EachOnceInOrder DrainedWhenIdle
PROPERTIES OneShotContract
