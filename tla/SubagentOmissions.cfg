\* A subagent is given the text, not the capsule it was written from.
SPECIFICATION Spec
CONSTANTS
  PageItems = 3
  PageBudget = 6
  ResponseBudget = 8
  ReferenceSize = 1
  CapsuleBudget = 8
  TextBudgets = {14, 16, 19}
  FixedSize = 6
  OmissionSize = 1
  SignalSize = 1
  FooterSize <- Footers
  LineSize = 3
  CompactSizes <- Compacts
  MaxInput = 9
  Profiles <- OnlyTexts
\* The client need not write anything.
CHECK_DEADLOCK FALSE
INVARIANTS DelegationCountsOmissions
