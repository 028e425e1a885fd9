SPECIFICATION RootFairSpec

CONSTANTS
  Caller = {c1, c2}
  Task = {t1}
  RootApproval = {a1, a2}
  Calls = {"submit", "run", "approve", "approvetask", "request"}
  Faults = FALSE

PROPERTIES
  ApprovedTaskActs

CHECK_DEADLOCK FALSE
