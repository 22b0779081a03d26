CONSTANTS
  Sizes = {0, 1, 2, 13, 14, 15, 16, 27, 28, 60}
  Keys = {0, 1, 128, 255}
  maxLength = 84
  Ports = {0, 80, 255, 256, 65535}
  NameSizes = {1, 2, 3, 40, 255}
  ValueSizes = {0, 1, 3, 4, 5}
  Numbers = {0, 1, 64, 255, 300, 1000}
SPECIFICATION Spec
INVARIANTS TransformersInvert MessagesUnderstood
CHECK_DEADLOCK FALSE
