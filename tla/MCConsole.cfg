SPECIFICATION Spec
CONSTANTS
  Shell = {c1, c2}  Pid = {p1, p2, p3}  MaxCommands = 3  MaxMishaps = 2
  Tab = {t1, t2}  Hosted = {"openai"}  DefaultBase <- MCDefaultBase
  DefaultModel <- MCDefaultModel  NoValue = NoValue  Forms <- MCForms  Name = {"p"}
  Envs <- MCEnvs  Asked <- MCAsked  MaxEdits = 3  MaxStarts = 2  MaxBadWrites = 1
  Tools <- MCTools  Calls <- MCCalls  Chunks <- MCChunks
  maxAgentTurns = 2  MaxParallel = 2  MaxChunks = 3
  Here = {1}  Elsewhere = {2}  Parts <- MCParts
  Delays = {300}  ShownLimit = 3  MaxEvents = 2  MaxTurns = 1
  ScenarioList <- MCScenarioList  slugify <- MCslugify  canonical <- MCcanonical
  Scopes <- MCScopes  StepResults <- MCStepResults  Seconds <- MCSeconds
  MaxRuns = 2  MaxHarnessFaults = 2
INVARIANTS OneDaemon SettingsSurvive ConfigUsable ToolsHonest StreamFaithful PageHonest
  ReportsHonest
CHECK_DEADLOCK FALSE
