\* Three jobs of one tenant: admission, the running quota and the backlog.
SPECIFICATION Spec
CONSTANTS
  t1 = t1 j1 = j1 j2 = j2 j3 = j3 r1 = r1 r2 = r2 w1 = w1 w2 = w2 s1 = s1 s2 = s2
  None = None
  Runs = {r1, r2}
  Workers = {w1, w2}
  Tenants = {t1}
  Jobs = {j1, j2, j3}
  Subs = {}
  TenantOf <- OneTenant
  Rank <- RankByName
  WorkerOf <- DistinctWorkers
  MaxQueued <- One
  MaxRunning <- One
  OwnQuota = {t1}
  FallbackRunning = 2
  ClaimWindow = 2
  MaxAttempts = 2
INVARIANTS RunningWithinClaimQuota BacklogBounded
SYMMETRY RunSymmetry
