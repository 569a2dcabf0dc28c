\* An operation staged after the commit is pushed with it.
SPECIFICATION SerialSpec
CONSTANTS
  Op = {o1, o2}
  Call = {c1, c2}
  SyntheticKind = {"sync"}
  PushStatus = {"submitted"}
  NULL = NULL
  MaxHashes = 3
  MaxFaults = 0
INVARIANT PushedWasCommitted
CHECK_DEADLOCK FALSE
