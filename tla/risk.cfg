\* A store and its successor over one file, two disk faults or crashes.
SPECIFICATION FairSpec
CONSTANTS
  Store = {s1, s2}
  MaxRequests = 2
  MaxFaults = 2
INVARIANTS
  RiskTypeOK
  AckedIsDurable
  GateHoldsAcked
PROPERTIES
  AutoNeverLoosens
  RequestsSettle
CHECK_DEADLOCK FALSE
