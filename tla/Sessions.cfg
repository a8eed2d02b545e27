SPECIFICATION MCSpec
CONSTANTS
  None = None
  p1 = p1
  p2 = p2
  o1 = o1
  o2 = o2
  Procs = {p1, p2}
  Owners = {o1, o2}
  Sites <- MCSites
  Ttl = 2
  MaxTime = 2
  MaxToken = 2
  Sessions = {1, 2}
  Tasks = {1}
  Streams = {"stdout"}
  Block = 2
  Limits = {1}
  MaxOutput = 3
  Inside = {"root"}
  Outside = {"tmp"}
CHECK_DEADLOCK FALSE
INVARIANT HolderIsCurrent
PROPERTIES FencedInOrder AnswerStillOwned TasksServed
