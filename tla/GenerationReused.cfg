\* A generation read before the CLI archives the task.
SPECIFICATION Spec
CONSTANTS
  A = A
  B = B
  C = C
  D = D
  goal = goal
  other = other
  work = work
  step = step
  ItemId = {A, B, C, D}
  Claim = {goal, other, work, step}
  Workspace <- OnePlace
  ContractRef = {r1}
  r1 = r1
  Null = Null
  Client = {k1, k2}
  k1 = k1
  Batches <- Guesses
  Words = {}
  MaxActive = 4
  MaxEvents = 2
  ChallengeWindow = 2
  MaxLives = 1
  MaxResolved = 0
  MaxVersion = 1
  Triggers = {"manual"}
  FileStates = {"present"}
  Durable = TRUE
  Ops = {"record", "archive"}
  k2 = k2
INVARIANTS AcceptedGenerationIsOfThisState
\* A full ledger refuses every operation.
CHECK_DEADLOCK FALSE
