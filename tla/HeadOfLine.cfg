SPECIFICATION FairTeamSpec
CONSTANTS
  lead = lead  ana = ana  bob = bob  t1 = t1  t2 = t2  t3 = t3
  Actor <- MCActor
  Task <- MCTask3
  BogusId = {}
  Label = {}
  Payload = {}
  NoOne = NoOne
  NoEvent = NoEvent
  Lead = lead
  Teammate = {ana}
  NoTask = NoTask
  InitialSpec <- MCNone
  Tool = {"add"}
  Assignable = {NoOne}
  AgentDeps = TRUE
  Policy = "isolate"
  MaxConcurrent = 2
  IdlePolls = 1
  ExternalCancel = FALSE
PROPERTY IndependentTaskDone
