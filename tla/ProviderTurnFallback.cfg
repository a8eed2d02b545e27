SPECIFICATION MCSpec
CONSTANTS
  Parts = {"provider"}
  None = None
  pa = pa
  Supervisors = {s1}
  Workers = {1, 2, 3}
  Pids = {n1, n2}
  Intents = {i1}
  Profiles = {pa}
  Profile <- MCProfile
  MaxCrashes = 1
  JobSites <- Steady
  Procs = {p1, p2}
  r1 = r1
  r2 = r2
  Requests = {r1, r2}
  Sites <- Retried
  CatalogOf <- MCCatalogOf
  MaxOrdinal = 3
INVARIANT ClassifiedFailureIsRecorded
CHECK_DEADLOCK FALSE
