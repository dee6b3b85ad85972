\* Two processes, three bios in all.
SPECIFICATION Spec
CONSTANTS
  Submitters = {a, b}
  nsectors = 4
  PAGE = 2
  Bios <- MCBios
  MaxBios = 3
  RemovalBios = 2
  Unset = Unset
  Foreign = Foreign
SYMMETRY SubmitterSymmetry
INVARIANTS
  WritesStay
  ReadsReturnLastWrite
  NothingMisplaced
  ListIsComplete
  
  
\* The bios run out, the module is gone.
CHECK_DEADLOCK FALSE
