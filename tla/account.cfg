\* Overlapping calls, two operations, one crash or failed account read.
SPECIFICATION AccountSpec
CONSTANTS
  Op = {o1, o2}
  Call = {c1, c2}
  SyntheticKind = {"sync"}
  PushStatus = {"submitted"}
  NULL = NULL
  MaxHashes = 3
  MaxFaults = 1
  Reducing = {o1}
  PaperAuto = TRUE
SYMMETRY Symmetry
INVARIANTS
  AccountTypeOK
  ChainIntegrity
  PendingHasOperations
  PushIdempotent
  GuardHeldByPush
PROPERTIES
  LogOnlyGrows
  ReadOnlyDrains
CHECK_DEADLOCK FALSE
