SPECIFICATION FairSpec
CONSTANTS
  Caller <- MCCaller
  Id <- MCId
  NoId = NoId
  Breaker = 3
  FlowBreaker = 4
  MaxRestarts = 1
  N = 2
  MaxLapses = 1
  MaxRounds = 2
  MaxTurns = 2
  StagnationWindow = 2
  MaxConcurrent = 1
  MaxAttempts = 2
  MaxRestores = 1
INVARIANTS RestartsBounded EndMeansDone InformedEnd OutcomesAgree
PROPERTIES SequenceIsChain FlowEnds
CHECK_DEADLOCK FALSE
