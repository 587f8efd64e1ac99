\* Two requests at a time on one case.
CHECK_DEADLOCK FALSE
SPECIFICATION Spec
CONSTANTS
  c1 = c1 c2 = c2 o1 = o1 o2 = o2 k1 = k1 k2 = k2 None = None
  Cases = {c1, c2}
  Infeasible = {c2}
  Batches <- OneByOne
  Decisions = {accepted, adjusted}
  Calls = {k1, k2}
  MaxChain = 3
  Ops = {o1, o2}
  Expected <- BothExpected
  Receipts <- AllReceipts
INVARIANTS TypeOK ClosedOnlyWhenComplete DecisionPrecedesExecution EventsCountOnce
PROPERTY EvidenceIsFinal
SYMMETRY CallSymmetry
