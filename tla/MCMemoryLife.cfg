SPECIFICATION LifeSpec
CONSTANTS
  e1 = e1
  e2 = e2
  f = f
  g = g
  p = p
  w = w
  Worlds <- MCWorlds
  Says <- MCSays
  NoCard = NoCard
  Card <- MCCard
  CardType <- MCCardType
  ScopeOf <- MCScopeOf
  Topic <- MCTopic
  DecayPolicy <- MCDecayPolicy
  Scope = {"project", "other"}
  CreateRequests <- MCCreateRequests
  UpdateRequests <- MCUpdateRequests
  FactOf <- MCFactOf
  Confidence <- MCConfidence
  Text = {"yes", "no"}
  Task = {1}
  Turn = {1}
  Requests <- MCRequests
  Usages <- MCUsages
  UpgradeScopes <- MCUpgradeScopes
  ConflictScopes <- MCConflictScopes
  Interval = 10
  MinRuns = 1
  MaxAge = 2
  MaxEdits = 1
  MaxTurns = 1
  MaxFaults = 1
INVARIANTS CardsConsistent
PROPERTIES NoRevival Forgotten ConflictReported
