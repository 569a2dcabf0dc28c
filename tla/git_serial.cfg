\* One caller at a time, three operations, crashes and failed account reads.
SPECIFICATION SerialSpec
CONSTANTS
  Op = {o1, o2, o3}
  Call = {c1, c2}
  SyntheticKind = {"sync"}
  PushStatus = {"submitted"}
  NULL = NULL
  MaxHashes = 4
  MaxFaults = 2
SYMMETRY Symmetry
INVARIANTS
  TypeOK
  NoOperationLost
  RecordedOnce
  ResentOnlyAfterFault
  RejectedNeverSent
PROPERTIES
  ImplementsLifecycle
CHECK_DEADLOCK FALSE
