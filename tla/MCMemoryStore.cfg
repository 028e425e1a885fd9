SPECIFICATION Spec

CONSTANTS
  Card = {k1, k2}
  MaxWrites = 3
  MaxErrors = 1
  MaxCrashes = 1

SYMMETRY Symmetry

INVARIANTS NothingForgotten EdgeEndsExist DiskMatchesMemory
CHECK_DEADLOCK FALSE
