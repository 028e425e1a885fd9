SPECIFICATION Spec

CONSTANTS
  Builtin <- MCBuiltin
  Files <- MCFiles
  Manifests <- MCManifests
  Installed <- MCInstalled
  External = "external"
  Admin = {a1, a2}
  Task = {t1}
  Kinds <- MCKinds
  Toggles <- MCToggles
  Run = {r1, r2}
  MaxCalls = 3
  MaxFaults = 1

SYMMETRY Symmetry

INVARIANTS RegistryHonest DoneComplete ActsBounded
CHECK_DEADLOCK FALSE
