\* A session that ends with a complete state, and a resume right after it.
SPECIFICATION Spec
CONSTANTS
  A = A
  B = B
  C = C
  D = D
  goal = goal
  other = other
  work = work
  step = step
  ItemId = {A, B, C, D}
  Claim = {goal, other, work, step}
  Workspace <- OnePlace
  ContractRef = {r1}
  r1 = r1
  Null = Null
  Client = {k1}
  k1 = k1
  Batches <- WholePosition
  Words = {}
  MaxActive = 4
  MaxEvents = 6
  ChallengeWindow = 2
  MaxLives = 1
  MaxResolved = 0
  MaxVersion = 1
  Triggers = {"manual"}
  FileStates = {"present"}
  Durable = TRUE
  Ops = {"record", "session", "snapshot"}
INVARIANTS CleanResumeIsEquivalent
\* A full ledger refuses every operation.
CHECK_DEADLOCK FALSE
