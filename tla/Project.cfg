SPECIFICATION ProjectSpec
CONSTANTS
  r1 = r1  r2 = r2
  Run <- MCRun
  N = 2
  MaxTurns = 1
  FaultSets <- MCFaultSets
  EngineName = {e0, e1}
  AgentName = {a0, a1}
  FlowName = {f0, f1}
  None = None
  DefaultEngine = e0
  MainFlow = f0
  Sample = a0
  MaxEntries = 2
  Engine = {"default", "google"}
  Model = {"m1", "m2"}
  NoModel = NoModel
  NoEngine = NoEngine
  NoProfile = NoProfile
  NoDriver = NoDriver
  DefaultProfile = "default"
  Profiles <- MCProfiles
  BuildRun <- MCRun
  Worlds <- MCWorlds
  Asks <- MCAsks
  EnvMappings <- MCEnv
  LocalServers = {"ollama"}
  MaxEdits = 1
  MaxCalls = 1
  Execution <- MCRun
  ScriptProfiles <- MCScriptProfiles
  MaxAgents = 2
  MaxAdds = 2
  ChatAgent = {c1, c2}
  NoAgent = NoAgent
  MaxTalk = 3
  RecentLimit = 3
  a1 = a1  t1 = t1  t2 = t2
  Actor <- MCActorApi
  Task <- MCTaskApi
  BogusId = {}
  Label = {}
  Payload <- MCPayload
  NoOne = NoOne
  NoEvent = NoEvent
  NoCall = NoCall
INVARIANTS Remembered LeavesNothingOpen Consistent EnginesFit ScriptCleansUp TalkIsWhole
PROPERTIES WorkspaceIsRegistry CyclesOnlyFromSave SearchFindsCycles
SYMMETRY ProjectSymmetry
CHECK_DEADLOCK FALSE
