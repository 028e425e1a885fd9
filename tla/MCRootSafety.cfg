SPECIFICATION RootSpec

CONSTANTS
  Caller = {c1, c2}
  Task = {t1, t2}
  RootApproval = {a1, a2}
  Calls = {"submit", "run", "approve", "deny", "request", "direct", "denytask"}
  Faults = TRUE

SYMMETRY Symmetry

INVARIANTS Authorised
CHECK_DEADLOCK FALSE
