\* Weak fairness of every step; lock files of killed processes may get old.
SPECIFICATION LiveSpec
CONSTANTS
  p1 = p1
  p2 = p2
  Proc = {p1, p2}
  NoProc = NoProc
  SnapName = {1}
  NoSnap = NoSnap
  ArchiveId = {11}
  MaxTries = 1
  MaxEvents = 1
  SnapshotRetention = 1
  EventBytes = 2
  IndentBytes = 1
  MaxLedgerBytes = 100
  Ops = {"append", "snapshot", "delete"}
  Ages = {"abandoned"}
  Faults = {"crash"}
PROPERTIES EveryOperationReturns StaleLockIsBroken
