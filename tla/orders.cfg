\* A buy with a bracket leg the venue does not list, a sell, every overlap.
SPECIFICATION FairSpec
CONSTANTS
  Order = {o1, o2}
  Sell = {o2}
  Leg = {o2}
  Hidden = {o2}
  Poller = poller
  Manual = {route}
  Emergency = emergency
  Reader = {r1}
  IdlessRow = TRUE
  Missing = Missing
  NoId = NoId
  NoRead = NoRead
  MaxEvents = 1
INVARIANTS
  OrdersTypeOK
  TerminalIsConfirmed
  FillsCountedOnce
PROPERTIES
  LeavesPendingOnlyWhenDone PendingResolved ObservedEventually ResidualsReconciled
CHECK_DEADLOCK FALSE
