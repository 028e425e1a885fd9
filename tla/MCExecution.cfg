SPECIFICATION FairSpec

CONSTANTS
  Caller = {c1, c2}
  Request <- MCRequest
  MaxActions = 3
  MaxErrors = 1
  MaxCrashes = 1

INVARIANTS RecordsHonest NeverTooOften RepeatsBounded
PROPERTIES Answered
CHECK_DEADLOCK FALSE
