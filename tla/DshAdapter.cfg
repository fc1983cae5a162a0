\* One session with every host event and its child; at most four jobs.
SPECIFICATION LiveSpec
CONSTANTS
  root = root
  child = child
  Session = {root, child}
  NoSession = NoSession
  Parent <- ChildOfRoot
  Profiles <- EachProfile
  MaxRecent = 2
  CallKinds = {"record", "correct"}
  MaxOthers = 1
CHECK_DEADLOCK FALSE
INVARIANTS NoRecoveryIsLost RecoveriesInOrder ConfirmationIsFound HandoffIsRecorded DrainWaits
PROPERTIES EverybodyReturns ImplementsSessionQueue
