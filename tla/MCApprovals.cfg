CONSTANTS
  MaxApprovals = 2
  Profiles = {"root", "user"}
  TTL = 1
  MaxTime = 3
SPECIFICATION Spec
INVARIANTS RecordsSound UsedAsGranted
PROPERTIES ImplementsGrant
CHECK_DEADLOCK FALSE
