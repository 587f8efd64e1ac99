\* A late event beyond the reported checkpoint enters the snapshot.
SPECIFICATION Spec
CONSTANTS
  erp = erp mes = mes machine = machine order = order None = None
  Sources = {erp, mes}
  Ids = {1, 2, 3, 4, 5, 6, 7}
  Entities = {machine, order}
  Feed <- LateFeed
  Required = {erp, mes}
  Cuts = {2, 3}
  Second = 1
  MaxSkew = 2
INVARIANT LaterEventsExcluded
