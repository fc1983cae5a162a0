\* Two processes, all operations and faults, the event and size limits; no lock
\* file gets older than lockStaleMs.
SPECIFICATION Spec
SYMMETRY ProcSymmetry
CONSTANTS
  p1 = p1
  p2 = p2
  Proc = {p1, p2}
  NoProc = NoProc
  SnapName = {1, 2, 3}
  NoSnap = NoSnap
  ArchiveId = {11}
  MaxTries = 1
  MaxEvents = 3
  SnapshotRetention = 1
  EventBytes = 2
  IndentBytes = 1
  MaxLedgerBytes = 4
  Ops = {"append", "check", "snapshot", "archive", "delete"}
  Ages = {}
  Faults = {"crash", "io"}
INVARIANTS TypeOK MutualExclusion SuccessIsOnDisk RetentionAfterSnapshot DeleteLeavesNothing
PROPERTIES NoLostUpdate ReferenceStays ImplementsSerialLedger
