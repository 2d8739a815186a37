SPECIFICATION Spec
CONSTANTS
  Bytes = {0, 1}
  MaxLen = 3
INVARIANTS
  OkMeansCopied
  NoStaleBytes
PROPERTIES
  NothingEmptiedInVain
