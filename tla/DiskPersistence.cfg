SPECIFICATION DiskSpec
CONSTANTS
  MaxStarts = 2
  MaxSpins = 1
  MaxWrites = 1
  Files = {f1, f2}
  NoFile = NoFile
SYMMETRY ImageSymmetry
INVARIANTS
  DisksTrue

  
