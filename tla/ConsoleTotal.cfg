SPECIFICATION ShownSpec
CONSTANTS
  ShownRun = {s1, s2}
  ShownFlow = {f1}
  AnyStatus = AnyStatus
  PageSizes = {1}
INVARIANT TotalIsCorrect
CHECK_DEADLOCK FALSE
