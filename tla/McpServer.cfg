\* Messages cut anywhere, pages of a changing task, capsules and texts.
SPECIFICATION LiveSpec
CONSTANTS
  PageItems = 3
  PageBudget = 6
  ResponseBudget = 8
  ReferenceSize = 1
  CapsuleBudget = 8
  TextBudgets = {14, 16, 19}
  FixedSize = 6
  OmissionSize = 1
  SignalSize = 1
  FooterSize <- Footers
  LineSize = 3
  CompactSizes <- Compacts
  MaxInput = 9
  Profiles <- EachProfile
\* The client need not write anything.
CHECK_DEADLOCK FALSE
INVARIANTS AnswersInOrder FailureHasACause PagesAreTheState CapsuleIsFull OmissionsAreNamed TextsStayInBudget
PROPERTIES EveryRequestIsAnswered PagesAdvance
