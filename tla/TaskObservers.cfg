SPECIFICATION MCSpec
CONSTANTS
  a1 = a1  a2 = a2  t1 = t1  t2 = t2  bogus = bogus  legal = legal
  Actor <- MCActor
  Task <- MCTask
  BogusId <- MCBogus
  Label <- MCLabel
  Payload = {}
  NoOne = NoOne
  NoEvent = NoEvent
  Waiter = {w1}
  Target <- MCTarget
INVARIANTS NoMissedEnd EndsAreReal BoardFits DepsHonoured
PROPERTIES WaitEnds BoardMoves
