SPECIFICATION OutsideSpec
CONSTANTS
  Caller = {c1, c2}
  Key = {k1, k2}
  NoKey = NoKey
  MaxEffects = 3
  Setup <- MCSetup
  MaxRuns = 3
  Crashes = 1
  PipeSize = 1
  MaxRequest = 2
  MaxSaid = 2
  Actor = {shell, dashboard}
  Pid = {p1, p2}
  NoPid = NoPid
  Question = {q1, q2, q3}
  NoQuestion = NoQuestion
  QueueSize = 2
  MaxExtra = 1
  Client = {w1, w2}
  Event = {e1, e2}
  MaxConnections = 1
  Press = {x1, x2, x3}
  FeedSize = 1
  MaxEvents = 2
  Person = {n1, n2, n3}
  Blank = Blank
  RunId = {r1, r2, r3}
  NoRun = NoRun
  MaxWork = 2
  Writer = {w1}
  MaxSteps = 2
  EventLists <- MCEventLists
  PageLimit = 2
  MaxStops = 2
  ShownRun = {s1, s2}
  ShownFlow = {f1, f2}
  AnyStatus = AnyStatus
  PageSizes = {1, 2}
INVARIANTS EffectsSingle CompletedMeansRan PipesFlow DaemonKnown AnswersFit HubServes NoGhostFlow WizardsGuide RecordsAgree RunsShown
PROPERTIES CompletedIsFinal WorkIsKept
CHECK_DEADLOCK FALSE
