\* Three operations on two machines, two repairs, four minutes.
SPECIFICATION Spec
CONSTANTS
  a = a b = b c = c
  Ops = {a, b, c}
  Machines = {1, 2}
  Horizon = 8
  Minute = 2
  None = None
  Shops <- MCShops
  Iterations = 2
CHECK_DEADLOCK FALSE
INVARIANTS BestOfAll DelaysAreKept LocalRepairsAreOffered
