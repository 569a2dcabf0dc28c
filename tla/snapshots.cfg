\* Two chunks of two snapshots, a hook beside the schedule, one fault.
SPECIFICATION FairSpec
CONSTANTS
  Caller = {c1}
  Scheduled = scheduled
  Hook = {h1}
  CHUNK_SIZE = 2
  NoDraft = NoDraft
  MaxSnapshots = 3
  MaxDeletes = 1
  MaxFaults = 1
INVARIANTS
  SnapshotsTypeOK
  PumpAlive
  ListingIsTrue
  Findable
  ReadIsComplete
PROPERTIES
  TicksComeAndGo
CHECK_DEADLOCK FALSE
