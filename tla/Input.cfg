SPECIFICATION Spec
CONSTANTS
  Pad <- MCPad
  Buttons <- UseButton
  Tap <- MCTap
  Sectors = {0, 12}
  Chars = {"1", "A", "arrow"}
  MaxInputs = 4
  MaxQueued = 3
INVARIANTS
  NoStuckKey
  KeysTrue
PROPERTIES
  KeysArrive
CHECK_DEADLOCK FALSE
