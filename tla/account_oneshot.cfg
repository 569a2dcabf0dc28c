\* The order form sends what an agent had staged for approval.
SPECIFICATION AccountSpec
CONSTANTS
  Op = {o1, o2}
  Call = {c1, c2}
  SyntheticKind = {"sync"}
  PushStatus = {"submitted"}
  NULL = NULL
  MaxHashes = 3
  MaxFaults = 0
  Reducing = {o1}
  PaperAuto = FALSE
INVARIANT SentWasApproved
CHECK_DEADLOCK FALSE
