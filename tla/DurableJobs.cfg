SPECIFICATION Spec
CONSTANTS
  None = None
  pa = pa
  Supervisors = {s1, s2}
  Workers = {1, 2}
  Pids = {p1, p2}
  Intents = {i1}
  Profiles = {pa}
  Profile <- MCProfile
  MaxCrashes = 1
  Sites <- MCSites
SYMMETRY Symmetry
CHECK_DEADLOCK FALSE
INVARIANTS AtMostOneLaunch StatusIsTrue FilesRecoverable
PROPERTIES OnlyDeadClaimsCleared GivesUpOnlyUnchangedEvidence ImplementsCommandOnce
