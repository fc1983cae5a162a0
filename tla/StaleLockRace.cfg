\* A killed process leaves a lock file that outlives lockStaleMs.
SPECIFICATION Spec
SYMMETRY ProcSymmetry
CONSTANTS
  p1 = p1
  p2 = p2
  Proc = {p1, p2}
  NoProc = NoProc
  SnapName = {1, 2, 3}
  NoSnap = NoSnap
  ArchiveId = {11}
  MaxTries = 3
  MaxEvents = 2
  SnapshotRetention = 1
  EventBytes = 2
  IndentBytes = 1
  MaxLedgerBytes = 100
  Ops = {"append", "check", "snapshot", "archive", "delete"}
  Ages = {"abandoned"}
  Faults = {"crash"}
PROPERTIES NoLostUpdate
