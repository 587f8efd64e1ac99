\* Snapshots of three operations on two machines, within a horizon of nine
\* minutes of two ticks.
SPECIFICATION Spec
CONSTANTS
  a = a b = b c = c ghost = ghost tool = tool lane = lane buffer = buffer
  Ops = {a, b, c}
  Machines = {1, 2}
  Horizon = 18
  Minute = 2
  None = None
  Shops <- MCShops
  Rank <- MCRank
CHECK_DEADLOCK FALSE
INVARIANTS PlacedFits  StatusTellsTheOrder
