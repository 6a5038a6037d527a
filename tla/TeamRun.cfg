SPECIFICATION FairTeamSpec
CONSTANTS
  lead = lead  ana = ana  bob = bob  t1 = t1  t2 = t2  t3 = t3
  Actor <- MCActor
  Task <- MCTask2
  BogusId = {}
  Label = {}
  Payload = {}
  NoOne = NoOne
  NoEvent = NoEvent
  Lead = lead
  Teammate <- MCTeammate
  NoTask = NoTask
  InitialSpec <- MCOne
  Tool = {"add", "complete", "fail", "claim"}
  Assignable <- MCAll
  AgentDeps = TRUE
  Policy = "isolate"
  MaxConcurrent = 1
  IdlePolls = 1
  ExternalCancel = TRUE
INVARIANTS HandOwned DrainedMeansSettled
PROPERTIES TeamIsBoardClient TeamEnds
