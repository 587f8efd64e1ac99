\* One plan of two instructions, two confirmations, two concurrent writebacks.
SPECIFICATION Spec
CONSTANTS
  p1 = p1 p2 = p2 o1 = o1 o2 = o2 s1 = s1 s2 = s2
  Plans = {p1}
  Ops = {o1, o2}
  OpsOf <- Both
  Sessions = {s1, s2}
  RetryLimit = 1
  MaxRetries = 1
  MaxDecisions = 2
  MaxLoad = 3
SYMMETRY Symmetry
INVARIANTS TypeOK WrittenAsConfirmed SuccessMeansApplied
