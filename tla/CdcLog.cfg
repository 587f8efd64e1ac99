\* Source clocks follow the sequences; duplicates and collisions; every event
\* is delivered in the end.
SPECIFICATION FairSpec
CONSTANTS
  erp = erp mes = mes machine = machine order = order None = None
  Sources = {erp, mes}
  Ids = {1, 2, 3, 4, 5, 6, 7}
  Entities = {machine, order}
  Feed <- OrderedFeed
  Required = {erp, mes}
  Cuts = {2, 3, 4}
  Second = 2
  MaxSkew = 1
INVARIANTS TypeOK CommittedIsPrefix NothingCommittableWaits SnapshotIsComplete CutIsFinal AnswerWithinSkew
PROPERTIES ImplementsLogs CatchesUp
