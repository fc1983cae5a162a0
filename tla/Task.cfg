\* Management, the user's intent, compactions and recoveries, one profile each.
SPECIFICATION ProfiledSpec
CONSTANTS
  A = A
  B = B
  C = C
  D = D
  goal = goal
  other = other
  work = work
  step = step
  ItemId = {A, B, C, D}
  Claim = {goal, other, work, step}
  Workspace <- TwoStates
  ContractRef = {r1, r2}
  r1 = r1
  r2 = r2
  Null = Null
  Client = {k1}
  k1 = k1
  Batches <- AllBatches
  Words <- AllWords
  MaxActive = 4
  MaxEvents = 7
  ChallengeWindow = 2
  MaxLives = 1
  MaxResolved = 1
  MaxVersion = 3
  Triggers = {"manual", "auto"}
  FileStates = {"present", "missing", "mismatched"}
  Durable = TRUE
  Ops = {"record", "correct", "bind", "clear", "candidates", "off", "on", "reset", "delete", "cli", "archive", "snapshot", "session"}
INVARIANTS TypeOK PromptAuthorizesOnce NothingWhileOff TwoMessagesPerAction DeletionIsConfirmed UserStateIsConfirmed SameGenerationSameState AuthorityOrder IntentIsTheContracts EvidenceIsCurrent BoundariesExpireActions ConfirmedCompactionHasSnapshot QuietRecoveryFoundNoChange
PROPERTIES ItemsOnlyAge
\* A full ledger refuses every operation.
CHECK_DEADLOCK FALSE
