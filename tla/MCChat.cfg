SPECIFICATION Spec

CONSTANTS
  Text <- MCText
  Marks <- MCMarks
  Kinds <- MCKinds
  Contexts <- MCContexts
  Answers <- MCAnswers
  Outcomes = {"done", "failed", "awaiting_approval"}
  OtherSkills = {"task-plan"}
  Progress = {"connector.request"}
  MaxInputs = 3
  MaxFaults = 1
  MaxEvents = 1

INVARIANTS StaysGone RequestsEnd GreenLit LatestGoal
PROPERTIES NothingLost
CHECK_DEADLOCK FALSE
