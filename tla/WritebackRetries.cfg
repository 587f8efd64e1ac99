\* Two plans of one instruction, two confirmations.
SPECIFICATION Spec
CONSTANTS
  p1 = p1 p2 = p2 o1 = o1 o2 = o2 s1 = s1 s2 = s2
  Plans = {p1, p2}
  Ops = {o1}
  OpsOf <- OneEach
  Sessions = {s1}
  RetryLimit = 3
  MaxRetries = 4
  MaxDecisions = 2
  MaxLoad = 3
PROPERTY RetriesAreCounted
