\* One writer, no fault: a ledger that fits when written and not when read.
SPECIFICATION Spec
CONSTANTS
  p1 = p1
  Proc = {p1}
  NoProc = NoProc
  SnapName = {1, 2, 3}
  NoSnap = NoSnap
  ArchiveId = {11}
  MaxTries = 1
  MaxEvents = 4
  SnapshotRetention = 1
  EventBytes = 2
  IndentBytes = 1
  MaxLedgerBytes = 6
  Ops = {"append", "check", "snapshot", "archive", "delete"}
  Ages = {}
  Faults = {}
INVARIANTS StoredLedgerIsReadable
