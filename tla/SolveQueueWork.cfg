\* One tenant, one job, two workers, two subproblems: the work of a job and
\* who may write it.
SPECIFICATION Spec
CONSTANTS
  t1 = t1 j1 = j1 j2 = j2 j3 = j3 r1 = r1 r2 = r2 w1 = w1 w2 = w2 s1 = s1 s2 = s2
  Tenants = {t1}
  Jobs = {j1}
  Runs = {r1, r2}
  Workers = {w1, w2}
  Subs = {s1, s2}
  None = None
  TenantOf <- OneTenant
  Rank <- RankByName
  WorkerOf <- DistinctWorkers
  MaxQueued <- One
  MaxRunning <- One
  OwnQuota = {}
  FallbackRunning = 2
  ClaimWindow = 100
  MaxAttempts = 3
INVARIANTS TypeOK LeaseMatchesStatus OwnerMadeLatestClaim CompletedIsCheckpointed
PROPERTIES StaleRunsWriteNothing TerminalIsFinal CancelIsSticky CheckpointIsWriteOnce
SYMMETRY SubSymmetry
