SPECIFICATION FairSpec

CONSTANTS
  Caller = {c1}
  Calls = {"submit", "deny", "run", "grant", "refuse"}
  MaxTasks = 3
  MaxCrashes = 1
  TornWrites = FALSE

INVARIANTS
  OneActivePerCrash

PROPERTIES
  DoneFinal
  ComesBack

CHECK_DEADLOCK FALSE
