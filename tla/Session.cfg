SPECIFICATION Spec
CONSTANTS
  MaxStarts = 2
  MaxSpins = 2
INVARIANTS
  EngineOwned
  FramesSafe
  ViewTrue
PROPERTIES
  InitOnCleanState
  WaitsEnd
  ImplementsMachine
