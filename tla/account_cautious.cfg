\* An operation staged before CAUTIOUS is pushed while it holds.
SPECIFICATION AccountSpec
CONSTANTS
  Op = {o1, o2}
  Call = {c1, c2}
  SyntheticKind = {"sync"}
  PushStatus = {"submitted"}
  NULL = NULL
  MaxHashes = 3
  MaxFaults = 0
  Reducing = {o1}
  PaperAuto = FALSE
PROPERTY CautiousOnlyReduces
CHECK_DEADLOCK FALSE
