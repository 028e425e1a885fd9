SPECIFICATION Spec

CONSTANTS
  Caller = {c1, c2}
  Calls = {"submit", "approve", "deny", "run", "grant", "refuse"}
  MaxTasks = 2
  MaxCrashes = 1
  TornWrites = TRUE

SYMMETRY CallerSymmetry

INVARIANTS PointerSound
PROPERTIES RecoveredClean
CHECK_DEADLOCK FALSE
