SPECIFICATION Spec
CONSTANTS
  MaxStarts = 2
  MaxSpins = 1
INVARIANT NoInheritedShutdown
